---- MODULE Spec2Model ----
(***************************************************************************)
(* Verification model of shipyard (lachierussell/shipyard).                *)
(*                                                                         *)
(* Each subsystem is modelled with its own specification:                  *)
(*   SpecUpdate    the self-updater: the binary triple P, P.new, P.old     *)
(*                 under Update and Rollback;                              *)
(*   SpecProxy     the nginx manager: sites-available, sites-enabled,      *)
(*                 override.conf, validate and reload;                     *)
(*   SpecFrontend  the frontend deployer on top of the nginx manager:      *)
(*                 commit directories, the latest symlink, zip extraction; *)
(*   SpecSite      the handlers site/create and site/destroy;              *)
(*   SpecConc      handlers as concurrent goroutines over the registry;    *)
(*   SpecPid       daemon processes on one PID file;                       *)
(*   SpecHub       the log hub, its producers and subscribers;             *)
(*   SpecMonitor   the health monitor's ticks;                             *)
(*   SpecAuth      the SiteAuth middleware, one request;                   *)
(*   SpecCommit    the commit check of the deploy handlers, one request;   *)
(*   SpecNames     the names derived from a site name;                     *)
(*   SpecPromote   updateLatestSymlink on every shape of commit directory; *)
(*   SpecAlloc     the registry's allocator of container addresses;        *)
(*   SpecSelfLive  the serve command under deploy/self, with fairness;     *)
(*   SpecHubLate   the log hub with subscribers that are behind, and       *)
(*                 SpecHubLateLive, the same with fairness;                *)
(*   SpecPairs     the names derived from two accepted domains;            *)
(*   SpecRestart   the registry file at the next start.                    *)
(* Every handler is a sequence of steps, one per filesystem or subprocess  *)
(* call of the source, so that intermediate states are states of the model.*)
(***************************************************************************)
EXTENDS Integers, Sequences, FiniteSets, TLC

VARIABLES
    \* ---- self-updater ----
    P,          \* the file at binaryPath
    Pnew,       \* the file at binaryPath + ".new"
    Pold,       \* the file at binaryPath + ".old"
    upc,        \* position of the running Update / Rollback call
    uop,        \* arguments and locals of that call
    uret,       \* what the last Update / Rollback call returned
    uhist,      \* outcomes of the last two completed calls (most recent last)
    updated,    \* TRUE once an Update call has returned nil
    \* ---- nginx manager ----
    cfgSite,    \* cfg.Site: the registered sites, with their ssl flag
    available,  \* sites-available/<site>.conf: content or absent
    enabled,    \* sites-enabled/<site>.conf: symlink present or absent
    overrideConf, \* override.conf: the set of sites it was generated from
    npc,        \* position of the running nginx manager call
    nop,        \* arguments and locals of that call
    nret,       \* what the last nginx manager call returned
    \* ---- frontend deployer ----
    fs,         \* the filesystem below the site's parent directory
    fpc,        \* position of the running frontend Deploy call
    fop,        \* arguments and locals of that call
    fret,       \* what the last Deploy call returned
    nDeploys,   \* number of Deploy calls started
    \* ---- site handlers ----
    diskSite,   \* the [site] tables of the configuration file on disk
    certs,      \* the domains whose certificate and key files exist
    spc,        \* position of the running site/create or site/destroy request
    sop,        \* arguments and locals of that request
    sret,       \* what the last such request answered
    \* ---- concurrent requests on the registry ----
    mu,         \* Config.mu: the writer and the readers that hold it
    jailIP,     \* Backend.JailIP of the sites in cfg.Site (0: no backend)
    sslSite,    \* the sites of cfg.Site with SSLEnabled
    cpc,        \* position of each request goroutine
    cop,        \* arguments and locals of each request goroutine
    mpc,        \* position of the health monitor goroutine
    nReq,       \* number of requests started
    \* ---- daemon processes and the PID file ----
    pidPath,    \* the inode the PID file path names (0: no such file)
    flock,      \* per inode, the process holding its exclusive lock (0: none)
    pfd,        \* per process, the inode of its open PID file (0: none)
    ppc,        \* position of each daemon process
    nStarts,    \* number of daemon starts
    \* ---- log hub ----
    hclients,   \* LogHub.clients
    hsend,      \* per subscriber, the content of its send channel
    hclosed,    \* per subscriber, whether its send channel is closed
    hqueue,     \* the content of LogHub.broadcast
    wpc,        \* per connection, the position of WSLogs
    pump,       \* per connection, whether its writePump still runs
    nMsgs,      \* number of log records broadcast
    nDrains,    \* number of messages the writePumps have received
    lpc,        \* position of the goroutine that logs a record
    hstopped,   \* whether LogHub.Run has returned
    \* ---- health monitor ----
    threshold,  \* cfg.Health.FailureThreshold
    svcStatus,  \* Monitor.serviceStatus
    probes,     \* per site, the probes made so far and whether each restarted
    \* ---- middleware and helpers applied to one input ----
    arg,        \* the input
    res,        \* the result in a sequence (empty before the call)
    \* ---- the daemon process: the serve command and deploy/self ----
    srv         \* shutdownChan: Server.shutdownChan, "open" or "closed";
                \* servePc: position of cmd.Serve, "panic" once a goroutine
                \* has panicked; selfPc: position of the DeploySelf handler;
                \* selfRet: status of the last deploy/self answer (0: none);
                \* timers: goroutines of DeploySelf that sleep before
                \* TriggerShutdown; nSelf: number of deploy/self requests

updVars   == <<P, Pnew, Pold, upc, uop, uret, uhist, updated>>
proxyVars == <<cfgSite, available, enabled, overrideConf, npc, nop, nret>>
frontVars == <<fs, fpc, fop, fret, nDeploys>>
siteVars  == <<diskSite, certs, spc, sop, sret>>
concVars  == <<mu, jailIP, sslSite, cpc, cop, mpc, nReq>>
pidVars   == <<pidPath, flock, pfd, ppc, nStarts>>
hubVars   == <<hclients, hsend, hclosed, hqueue, wpc, pump, nMsgs, nDrains, lpc, hstopped>>
monVars   == <<threshold, svcStatus, probes>>
pureVars  == <<arg, res>>
srvVars   == <<srv>>
notSiteExtra == <<concVars, pidVars, hubVars, monVars, pureVars, srvVars>>
notConcExtra == <<certs, spc, sop, sret, pidVars, hubVars, monVars, pureVars, srvVars>>
notPidExtra == <<siteVars, concVars, hubVars, monVars, pureVars, srvVars>>
notHubExtra == <<siteVars, concVars, pidVars, monVars, pureVars, srvVars>>
extraVars == <<siteVars, concVars, pidVars, hubVars, monVars, pureVars, srvVars>>
vars      == <<updVars, proxyVars, frontVars, extraVars>>

(***************************************************************************)
(* Self-updater: update/update.go                                          *)
(***************************************************************************)

\* A file: its bytes and whether a mode bit of 0111 is set.
NoFile == [exists |-> FALSE, bytes |-> "", exec |-> FALSE]
File(b, x) == [exists |-> TRUE, bytes |-> b, exec |-> x]

\* The binary installed before any update, and the binaries that are uploaded.
OrigBinary == "orig"
Binaries == {"v1", "v2", "exit1", "hang"}

\* What `<path> version` does for a binary with these bytes (validateBinary's
\* cmd.Run and the 10 second timer).
RunVersion(bytes) ==
    CASE bytes = "exit1" -> "nonzero"
      [] bytes = "hang" -> "timeout"
      [] bytes = "partial" -> "nonzero"
      [] OTHER -> "ok"

\* os.Rename(src, dst) on two of the three paths; envOk = FALSE is a failure
\* of the system call for a reason outside the three paths.
RenameOk(src, envOk) == src.exists /\ envOk

UIdleOp == [kind |-> "none", bin |-> "", pre |-> NoFile, preOld |-> NoFile]

InitUpdater ==
    /\ P = File(OrigBinary, TRUE)
    /\ Pnew = NoFile
    /\ Pold = NoFile
    /\ upc = "idle"
    /\ uop = UIdleOp
    /\ uret = "none"
    /\ uhist = <<>>
    /\ updated = FALSE

\* The record of a completed call kept in uhist.
HistEntry(kind, ok) ==
    [kind |-> kind, ok |-> ok, bin |-> uop.bin, pre |-> uop.pre, preOld |-> uop.preOld]
PushHist(e) == IF Len(uhist) < 2 THEN Append(uhist, e) ELSE <<uhist[2], e>>

UReturn(kind, result) ==
    /\ upc' = "idle"
    /\ uret' = result
    /\ uhist' = PushHist(HistEntry(kind, result = "ok"))
    /\ updated' = (updated \/ (kind = "update" /\ result = "ok"))
    /\ uop' = UIdleOp

\* Updater.Update is called with the uploaded bytes.
Update_Start(b) ==
    /\ upc = "idle"
    /\ upc' = "write"
    /\ uop' = [kind |-> "update", bin |-> b, pre |-> P, preOld |-> Pold]
    /\ UNCHANGED <<P, Pnew, Pold, uret, uhist, updated>>
    /\ UNCHANGED <<proxyVars, frontVars, extraVars>>

\* Updater.writeNewBinary: MkdirAll, OpenFile(O_CREATE|O_WRONLY|O_TRUNC, 0755),
\* io.Copy, Sync.  An existing P.new keeps its mode.  No error path removes
\* the file it has created.
Update_writeNewBinary(outcome) ==
    /\ upc = "write"
    /\ LET mode == IF Pnew.exists THEN Pnew.exec ELSE TRUE IN
       CASE outcome = "open_err" ->
              /\ UNCHANGED Pnew
              /\ UReturn("update", "write new binary")
         [] outcome = "copy_err" ->
              /\ Pnew' = File("partial", mode)
              /\ UReturn("update", "write new binary")
         [] outcome = "sync_err" ->
              /\ Pnew' = File(uop.bin, mode)
              /\ UReturn("update", "write new binary")
         [] outcome = "ok" ->
              /\ Pnew' = File(uop.bin, mode)
              /\ upc' = "validate"
              /\ UNCHANGED <<uop, uret, uhist, updated>>
    /\ UNCHANGED <<P, Pold>>
    /\ UNCHANGED <<proxyVars, frontVars, extraVars>>

\* Server.DeploySelf: the status it answers for what Update returned.
DeploySelfStatus(result) == IF result = "ok" THEN 200 ELSE 500

\* An Update that leaves P.new in place when validateBinary fails.
Update_validateBinary_KeepNew ==
    /\ upc = "validate"
    /\ IF Pnew.exists /\ Pnew.exec /\ RunVersion(Pnew.bytes) = "ok"
       THEN /\ upc' = "ar_rmold"
            /\ UNCHANGED <<Pnew, uop, uret, uhist, updated>>
       ELSE /\ UNCHANGED Pnew
            /\ UReturn("update", "validate binary")
    /\ UNCHANGED <<P, Pold>>
    /\ UNCHANGED <<proxyVars, frontVars, extraVars>>

\* Updater.validateBinary and the os.Remove(newPath) of Update when it fails.
Update_validateBinary ==
    /\ upc = "validate"
    /\ IF Pnew.exists /\ Pnew.exec /\ RunVersion(Pnew.bytes) = "ok"
       THEN /\ upc' = "ar_rmold"
            /\ UNCHANGED <<Pnew, uop, uret, uhist, updated>>
       ELSE /\ Pnew' = NoFile
            /\ UReturn("update", "validate binary")
    /\ UNCHANGED <<P, Pold>>
    /\ UNCHANGED <<proxyVars, frontVars, extraVars>>

\* atomicReplace: os.Remove(oldPath).
atomicReplace_RemoveOld ==
    /\ upc = "ar_rmold"
    /\ Pold' = NoFile
    /\ upc' = "ar_backup"
    /\ UNCHANGED <<P, Pnew, uop, uret, uhist, updated>>
    /\ UNCHANGED <<proxyVars, frontVars, extraVars>>

\* atomicReplace: os.Rename(binaryPath, oldPath); on failure Update removes
\* P.new and returns the error.
atomicReplace_Backup(envOk) ==
    /\ upc = "ar_backup"
    /\ IF RenameOk(P, envOk)
       THEN /\ Pold' = P
            /\ P' = NoFile
            /\ upc' = "ar_install"
            /\ UNCHANGED <<Pnew, uop, uret, uhist, updated>>
       ELSE /\ Pnew' = NoFile
            /\ UReturn("update", "atomic replace")
            /\ UNCHANGED <<P, Pold>>
    /\ UNCHANGED <<proxyVars, frontVars, extraVars>>

\* atomicReplace: os.Rename(newPath, binaryPath).
atomicReplace_Install(envOk) ==
    /\ upc = "ar_install"
    /\ IF RenameOk(Pnew, envOk)
       THEN /\ P' = Pnew
            /\ Pnew' = NoFile
            /\ UReturn("update", "ok")
            /\ UNCHANGED Pold
       ELSE /\ upc' = "ar_restore"
            /\ UNCHANGED <<P, Pnew, Pold, uop, uret, uhist, updated>>
    /\ UNCHANGED <<proxyVars, frontVars, extraVars>>

\* atomicReplace: the restore os.Rename(oldPath, binaryPath) after a failed
\* install; Update then removes P.new and returns the error either way.
atomicReplace_Restore(envOk) ==
    /\ upc = "ar_restore"
    /\ IF RenameOk(Pold, envOk)
       THEN /\ P' = Pold
            /\ Pold' = NoFile
       ELSE UNCHANGED <<P, Pold>>
    /\ Pnew' = NoFile
    /\ UReturn("update", "atomic replace")
    /\ UNCHANGED <<proxyVars, frontVars, extraVars>>

\* Updater.Rollback: the os.Stat(oldPath) check.
Rollback_Start ==
    /\ upc = "idle"
    /\ IF Pold.exists
       THEN /\ upc' = "rb_rmnew"
            /\ uop' = [kind |-> "rollback", bin |-> "", pre |-> P, preOld |-> Pold]
            /\ UNCHANGED <<uret, uhist, updated>>
       ELSE /\ upc' = "idle"
            /\ uret' = "no backup found"
            /\ uhist' = PushHist([kind |-> "rollback", ok |-> FALSE, bin |-> "", pre |-> P,
                               preOld |-> Pold])
            /\ UNCHANGED updated
            /\ uop' = UIdleOp
    /\ UNCHANGED <<P, Pnew, Pold>>
    /\ UNCHANGED <<proxyVars, frontVars, extraVars>>

\* Rollback: os.Remove(newPath).
Rollback_RemoveNew ==
    /\ upc = "rb_rmnew"
    /\ Pnew' = NoFile
    /\ upc' = "rb_aside"
    /\ UNCHANGED <<P, Pold, uop, uret, uhist, updated>>
    /\ UNCHANGED <<proxyVars, frontVars, extraVars>>

\* Rollback: os.Rename(binaryPath, newPath).
Rollback_MoveAside(envOk) ==
    /\ upc = "rb_aside"
    /\ IF RenameOk(P, envOk)
       THEN /\ Pnew' = P
            /\ P' = NoFile
            /\ upc' = "rb_restore"
            /\ UNCHANGED <<Pold, uop, uret, uhist, updated>>
       ELSE /\ UReturn("rollback", "move current binary")
            /\ UNCHANGED <<P, Pnew, Pold>>
    /\ UNCHANGED <<proxyVars, frontVars, extraVars>>

\* Rollback: os.Rename(oldPath, binaryPath); on failure the
\* os.Rename(newPath, binaryPath) whose error is ignored.
Rollback_Restore(envOk, undoOk) ==
    /\ upc = "rb_restore"
    /\ IF RenameOk(Pold, envOk)
       THEN /\ P' = Pold
            /\ Pold' = NoFile
            /\ upc' = "rb_clean"
            /\ UNCHANGED <<Pnew, uop, uret, uhist, updated>>
       ELSE /\ IF RenameOk(Pnew, undoOk)
               THEN P' = Pnew /\ Pnew' = NoFile
               ELSE UNCHANGED <<P, Pnew>>
            /\ UNCHANGED Pold
            /\ UReturn("rollback", "restore backup")
    /\ UNCHANGED <<proxyVars, frontVars, extraVars>>

\* Rollback returning nil without its final os.Remove(newPath).
Rollback_Cleanup_NoRemove ==
    /\ upc = "rb_clean"
    /\ UReturn("rollback", "ok")
    /\ UNCHANGED <<P, Pnew, Pold>>
    /\ UNCHANGED <<proxyVars, frontVars, extraVars>>

\* Rollback: the final os.Remove(newPath) and the nil return.
Rollback_Cleanup ==
    /\ upc = "rb_clean"
    /\ Pnew' = NoFile
    /\ UReturn("rollback", "ok")
    /\ UNCHANGED <<P, Pold>>
    /\ UNCHANGED <<proxyVars, frontVars, extraVars>>

NextUpdater ==
    \/ \E b \in Binaries : Update_Start(b)
    \/ \E o \in {"open_err", "copy_err", "sync_err", "ok"} : Update_writeNewBinary(o)
    \/ Update_validateBinary
    \/ atomicReplace_RemoveOld
    \/ \E e \in BOOLEAN : atomicReplace_Backup(e)
    \/ \E e \in BOOLEAN : atomicReplace_Install(e)
    \/ \E e \in BOOLEAN : atomicReplace_Restore(e)
    \/ Rollback_Start
    \/ Rollback_RemoveNew
    \/ \E e \in BOOLEAN : Rollback_MoveAside(e)
    \/ \E e, u \in BOOLEAN : Rollback_Restore(e, u)
    \/ Rollback_Cleanup

(***************************************************************************)
(* nginx manager: nginx/manager.go, nginx/validate.go                      *)
(***************************************************************************)

\* The domains that requests name.
Sites == {"a.example.com", "b.example.com"}

\* The rendered site configs that callers pass, and the ones `nginx -t` accepts.
Bodies == {"good1", "good2", "bad"}
GoodBodies == {"good1", "good2", "http_only"}

\* sites-available/<site>.conf: absent, or a file with this content.
NoConf == [exists |-> FALSE, body |-> ""]
Conf(b) == [exists |-> TRUE, body |-> b]

\* GenerateHTTPOnlyConfig(domain): the ACME challenge config.
GenerateHTTPOnlyConfig(domain) == Conf("http_only")

\* GenerateOverrideConf(cfg): one map and geo entry per site of cfg.Site.
GenerateOverrideConf(sites) == sites

\* ValidateAndGetError: `nginx -t` on the main config, which includes
\* override.conf and sites-enabled/*.conf; it exits zero iff every enabled
\* link resolves to a file with accepted content.
ValidateAndGetError(avail, enab) ==
    \A s \in Sites : enab[s] => (avail[s].exists /\ avail[s].body \in GoodBodies)

ValidatorOutput == "nginx: configuration file test failed"

NIdleOp == [kind |-> "none", site |-> "", conf |-> NoConf, enabled0 |-> FALSE,
            avail0 |-> NoConf, rejected |-> FALSE, reloadIssued |-> FALSE,
            reloadSawNew |-> FALSE, caller |-> "none"]
NNoRet == [kind |-> "none", site |-> "", conf |-> NoConf, enabled0 |-> FALSE,
           avail0 |-> NoConf, rejected |-> FALSE, reloadIssued |-> FALSE,
           reloadSawNew |-> FALSE, caller |-> "none",
           reloaded |-> FALSE, msg |-> "", err |-> "nil"]

InitProxy ==
    /\ cfgSite = {}
    /\ available = [s \in Sites |-> NoConf]
    /\ enabled = [s \in Sites |-> FALSE]
    /\ overrideConf = {}
    /\ npc = "idle"
    /\ nop = NIdleOp
    /\ nret = NNoRet

\* The locals of a manager call on `site` as it begins.
NBegin(kind, site, conf, caller) ==
    [kind |-> kind, site |-> site, conf |-> conf, enabled0 |-> enabled[site],
     avail0 |-> available[site], rejected |-> FALSE, reloadIssued |-> FALSE,
     reloadSawNew |-> FALSE, caller |-> caller]

\* A manager call returns (reloaded, msg, err) to its caller.
NRet(op, reloaded, msg, err) ==
    [kind |-> op.kind, site |-> op.site, conf |-> op.conf, enabled0 |-> op.enabled0,
     avail0 |-> op.avail0, rejected |-> op.rejected, reloadIssued |-> op.reloadIssued,
     reloadSawNew |-> op.reloadSawNew, caller |-> op.caller,
     reloaded |-> reloaded, msg |-> msg, err |-> err]

NReturn(op, reloaded, msg, err) ==
    /\ npc' = "idle"
    /\ nop' = NIdleOp
    /\ nret' = NRet(op, reloaded, msg, err)

\* Config.AddSite / Config.RemoveSite on the in-memory site map.
Config_AddSite(s) ==
    /\ npc = "idle" /\ fpc = "idle"
    /\ s \notin cfgSite
    /\ cfgSite' = cfgSite \cup {s}
    /\ UNCHANGED <<available, enabled, overrideConf, npc, nop, nret>>
    /\ UNCHANGED <<updVars, frontVars, extraVars>>

Config_RemoveSite(s) ==
    /\ npc = "idle" /\ fpc = "idle"
    /\ s \in cfgSite
    /\ cfgSite' = cfgSite \ {s}
    /\ UNCHANGED <<available, enabled, overrideConf, npc, nop, nret>>
    /\ UNCHANGED <<updVars, frontVars, extraVars>>

\* DeploySiteConfigRaw: the site lookup that opens the call.
DeploySiteConfigRaw_Begin(site, body, caller) ==
    IF site \notin cfgSite
    THEN NReturn(NBegin("deploy_site", site, Conf(body), caller), FALSE, "", "site not found")
    ELSE /\ npc' = "ds_write"
         /\ nop' = NBegin("deploy_site", site, Conf(body), caller)
         /\ UNCHANGED nret

\* Manager.DeploySiteConfigRaw called by a request handler.
DeploySiteConfigRaw_Start(site, body) ==
    /\ npc = "idle" /\ fpc = "idle"
    /\ DeploySiteConfigRaw_Begin(site, body, "handler")
    /\ UNCHANGED <<cfgSite, available, enabled, overrideConf>>
    /\ UNCHANGED <<updVars, frontVars, extraVars>>

\* DeploySiteConfigRaw: MkdirAll and os.WriteFile of sites-available/<site>.conf.
DeploySiteConfigRaw_Write(ok) ==
    /\ npc = "ds_write"
    /\ IF ok
       THEN /\ available' = [available EXCEPT ![nop.site] = nop.conf]
            /\ npc' = "ds_override"
            /\ UNCHANGED <<nop, nret>>
       ELSE /\ NReturn(nop, FALSE, "", "write site config")
            /\ UNCHANGED available
    /\ UNCHANGED <<cfgSite, enabled, overrideConf>>
    /\ UNCHANGED <<updVars, frontVars, extraVars>>

\* DeploySiteConfigRaw: GenerateOverrideConf and os.WriteFile of override.conf.
DeploySiteConfigRaw_Override(ok) ==
    /\ npc = "ds_override"
    /\ IF ok
       THEN /\ overrideConf' = GenerateOverrideConf(cfgSite)
            /\ npc' = "ds_validate"
            /\ UNCHANGED <<nop, nret>>
       ELSE /\ NReturn(nop, FALSE, "", "write override conf")
            /\ UNCHANGED overrideConf
    /\ UNCHANGED <<cfgSite, available, enabled>>
    /\ UNCHANGED <<updVars, frontVars, extraVars>>

\* Where DeploySiteConfigRaw goes on with the validator's verdict ignored.
AfterValidate_Ignored(isValid) == "ds_unlink"

\* Where DeploySiteConfigRaw goes after ValidateAndGetError: on to
\* symlinkSiteConfig, or out with (false, errMsg, nil).
AfterValidate(isValid) == IF isValid THEN "ds_unlink" ELSE "return"

\* DeploySiteConfigRaw: ValidateAndGetError.
DeploySiteConfigRaw_Validate ==
    /\ npc = "ds_validate"
    /\ LET isValid == ValidateAndGetError(available, enabled)
           op == [nop EXCEPT !.rejected = ~isValid]
       IN IF AfterValidate(isValid) = "return"
          THEN NReturn(op, FALSE, ValidatorOutput, "nil")
          ELSE /\ npc' = AfterValidate(isValid)
               /\ nop' = op
               /\ UNCHANGED nret
    /\ UNCHANGED <<cfgSite, available, enabled, overrideConf>>
    /\ UNCHANGED <<updVars, frontVars, extraVars>>

\* symlinkSiteConfig: the site lookup, MkdirAll and os.Remove(enabledPath).
symlinkSiteConfig_Remove(ok) ==
    /\ npc = "ds_unlink"
    /\ IF nop.site \in cfgSite /\ ok
       THEN /\ enabled' = [enabled EXCEPT ![nop.site] = FALSE]
            /\ npc' = "ds_symlink"
            /\ UNCHANGED <<nop, nret>>
       ELSE /\ NReturn(nop, FALSE, "", "symlink site config")
            /\ UNCHANGED enabled
    /\ UNCHANGED <<cfgSite, available, overrideConf>>
    /\ UNCHANGED <<updVars, frontVars, extraVars>>

\* symlinkSiteConfig: os.Symlink(availablePath, enabledPath).
symlinkSiteConfig_Symlink(ok) ==
    /\ npc = "ds_symlink"
    /\ IF ok
       THEN /\ enabled' = [enabled EXCEPT ![nop.site] = TRUE]
            /\ npc' = "ds_reload"
            /\ UNCHANGED <<nop, nret>>
       ELSE /\ NReturn(nop, FALSE, "", "symlink site config")
            /\ UNCHANGED enabled
    /\ UNCHANGED <<cfgSite, available, overrideConf>>
    /\ UNCHANGED <<updVars, frontVars, extraVars>>

\* The locals of a call once it has run `nginx -s reload`.
Reloading(op) ==
    [op EXCEPT !.reloadIssued = TRUE,
               !.reloadSawNew = (enabled[op.site] /\ available[op.site] = op.conf)]

\* DeploySiteConfigRaw: `nginx -s reload`.
DeploySiteConfigRaw_Reload(ok) ==
    /\ npc = "ds_reload"
    /\ IF ok
       THEN NReturn(Reloading(nop), TRUE, "", "nil")
       ELSE NReturn(Reloading(nop), FALSE, "", "nginx reload")
    /\ UNCHANGED <<cfgSite, available, enabled, overrideConf>>
    /\ UNCHANGED <<updVars, frontVars, extraVars>>

\* Manager.DeployHTTPOnlyConfig: MkdirAll twice, GenerateHTTPOnlyConfig and
\* os.WriteFile of sites-available/<domain>.conf.
DeployHTTPOnlyConfig_Write(domain, ok) ==
    /\ npc = "idle" /\ fpc = "idle"
    /\ LET op == NBegin("deploy_http_only", domain, GenerateHTTPOnlyConfig(domain), "handler")
       IN IF ok
          THEN /\ available' = [available EXCEPT ![domain] = op.conf]
               /\ npc' = "ho_unlink"
               /\ nop' = op
               /\ UNCHANGED nret
          ELSE /\ NReturn(op, FALSE, "", "write http config")
               /\ UNCHANGED available
    /\ UNCHANGED <<cfgSite, enabled, overrideConf>>
    /\ UNCHANGED <<updVars, frontVars, extraVars>>

\* DeployHTTPOnlyConfig: os.Remove(enabledPath).
DeployHTTPOnlyConfig_Remove ==
    /\ npc = "ho_unlink"
    /\ enabled' = [enabled EXCEPT ![nop.site] = FALSE]
    /\ npc' = "ho_symlink"
    /\ UNCHANGED <<cfgSite, available, overrideConf, nop, nret>>
    /\ UNCHANGED <<updVars, frontVars, extraVars>>

\* DeployHTTPOnlyConfig: os.Symlink(availablePath, enabledPath).
DeployHTTPOnlyConfig_Symlink(ok) ==
    /\ npc = "ho_symlink"
    /\ IF ok
       THEN /\ enabled' = [enabled EXCEPT ![nop.site] = TRUE]
            /\ npc' = "ho_validate"
            /\ UNCHANGED <<nop, nret>>
       ELSE /\ NReturn(nop, FALSE, "", "symlink")
            /\ UNCHANGED enabled
    /\ UNCHANGED <<cfgSite, available, overrideConf>>
    /\ UNCHANGED <<updVars, frontVars, extraVars>>

\* DeployHTTPOnlyConfig: ValidateAndGetError, and on rejection the removal of
\* the link and of the file.
DeployHTTPOnlyConfig_Validate ==
    /\ npc = "ho_validate"
    /\ IF ValidateAndGetError(available, enabled)
       THEN /\ npc' = "ho_reload"
            /\ UNCHANGED <<available, enabled, nop, nret>>
       ELSE /\ enabled' = [enabled EXCEPT ![nop.site] = FALSE]
            /\ available' = [available EXCEPT ![nop.site] = NoConf]
            /\ NReturn([nop EXCEPT !.rejected = TRUE], FALSE, ValidatorOutput,
                       "nginx validation failed")
    /\ UNCHANGED <<cfgSite, overrideConf>>
    /\ UNCHANGED <<updVars, frontVars, extraVars>>

\* DeployHTTPOnlyConfig: `nginx -s reload`.
DeployHTTPOnlyConfig_Reload(ok) ==
    /\ npc = "ho_reload"
    /\ IF ok
       THEN NReturn(Reloading(nop), TRUE, "", "nil")
       ELSE NReturn(Reloading(nop), FALSE, "", "nginx reload")
    /\ UNCHANGED <<cfgSite, available, enabled, overrideConf>>
    /\ UNCHANGED <<updVars, frontVars, extraVars>>

\* Manager.RemoveSiteConfigByDomain: both os.Remove calls and the reload
\* whose error is ignored.
RemoveSiteConfigByDomain(domain) ==
    /\ npc = "idle" /\ fpc = "idle"
    /\ enabled' = [enabled EXCEPT ![domain] = FALSE]
    /\ available' = [available EXCEPT ![domain] = NoConf]
    /\ LET op == [NBegin("remove_by_domain", domain, NoConf, "handler")
                     EXCEPT !.reloadIssued = TRUE]
       IN NReturn(op, FALSE, "", "nil")
    /\ UNCHANGED <<cfgSite, overrideConf>>
    /\ UNCHANGED <<updVars, frontVars, extraVars>>

\* Manager.RemoveSiteConfig: the site lookup and both os.Remove calls.
RemoveSiteConfig_Remove(site) ==
    /\ npc = "idle" /\ fpc = "idle"
    /\ IF site \notin cfgSite
       THEN /\ NReturn(NBegin("remove_site", site, NoConf, "handler"), FALSE, "", "site not found")
            /\ UNCHANGED <<available, enabled>>
       ELSE /\ enabled' = [enabled EXCEPT ![site] = FALSE]
            /\ available' = [available EXCEPT ![site] = NoConf]
            /\ npc' = "rs_override"
            /\ nop' = NBegin("remove_site", site, NoConf, "handler")
            /\ UNCHANGED nret
    /\ UNCHANGED <<cfgSite, overrideConf>>
    /\ UNCHANGED <<updVars, frontVars, extraVars>>

\* RemoveSiteConfig: GenerateOverrideConf(m.cfg) and os.WriteFile.
RemoveSiteConfig_Override(ok) ==
    /\ npc = "rs_override"
    /\ IF ok
       THEN /\ overrideConf' = GenerateOverrideConf(cfgSite)
            /\ npc' = "rs_validate"
            /\ UNCHANGED <<nop, nret>>
       ELSE /\ NReturn(nop, FALSE, "", "write override conf")
            /\ UNCHANGED overrideConf
    /\ UNCHANGED <<cfgSite, available, enabled>>
    /\ UNCHANGED <<updVars, frontVars, extraVars>>

\* RemoveSiteConfig: ValidateAndGetError and `nginx -s reload`.
RemoveSiteConfig_ValidateReload(ok) ==
    /\ npc = "rs_validate"
    /\ IF ~ValidateAndGetError(available, enabled)
       THEN NReturn([nop EXCEPT !.rejected = TRUE], FALSE, ValidatorOutput,
                    "nginx validation after removal")
       ELSE IF ok
            THEN NReturn(Reloading(nop), TRUE, "", "nil")
            ELSE NReturn(Reloading(nop), FALSE, "", "nginx reload")
    /\ UNCHANGED <<cfgSite, available, enabled, overrideConf>>
    /\ UNCHANGED <<updVars, frontVars, extraVars>>

\* The steps of a manager call that is under way.
NextManagerStep ==
    \/ \E ok \in BOOLEAN : DeploySiteConfigRaw_Write(ok)
    \/ \E ok \in BOOLEAN : DeploySiteConfigRaw_Override(ok)
    \/ DeploySiteConfigRaw_Validate
    \/ \E ok \in BOOLEAN : symlinkSiteConfig_Remove(ok)
    \/ \E ok \in BOOLEAN : symlinkSiteConfig_Symlink(ok)
    \/ \E ok \in BOOLEAN : DeploySiteConfigRaw_Reload(ok)

NextProxy ==
    \/ \E s \in Sites : Config_AddSite(s)
    \/ \E s \in Sites : Config_RemoveSite(s)
    \/ \E s \in Sites, b \in Bodies : DeploySiteConfigRaw_Start(s, b)
    \/ NextManagerStep
    \/ \E s \in Sites, ok \in BOOLEAN : DeployHTTPOnlyConfig_Write(s, ok)
    \/ DeployHTTPOnlyConfig_Remove
    \/ \E ok \in BOOLEAN : DeployHTTPOnlyConfig_Symlink(ok)
    \/ DeployHTTPOnlyConfig_Validate
    \/ \E ok \in BOOLEAN : DeployHTTPOnlyConfig_Reload(ok)
    \/ \E s \in Sites : RemoveSiteConfigByDomain(s)
    \/ \E s \in Sites : RemoveSiteConfig_Remove(s)
    \/ \E ok \in BOOLEAN : RemoveSiteConfig_Override(ok)
    \/ \E ok \in BOOLEAN : RemoveSiteConfig_ValidateReload(ok)

(***************************************************************************)
(* Filesystem and path functions used by deploy/frontend.go                *)
(***************************************************************************)

\* A path is [abs, parts]: whether it begins with "/" and its components.
\* The files of the model live at absolute paths, the sequences of components
\* below "/".
Path(abs, parts) == [abs |-> abs, parts |-> parts]

\* Symlinks followed in one path resolution before the kernel gives ELOOP.
MaxHops == 3

\* The components that begin with "..".
DotDotNames == {"..", "..x"}

\* filepath.Clean on the components: "." and "" are dropped, ".." removes the
\* component before it, is dropped at the root and kept at the start of a
\* relative path.
RECURSIVE CleanParts(_, _, _)
CleanParts(abs, out, rest) ==
    IF rest = <<>> THEN out
    ELSE LET c == Head(rest) IN
         IF c = "." \/ c = "" THEN CleanParts(abs, out, Tail(rest))
         ELSE IF c = ".."
              THEN IF out # <<>> /\ out[Len(out)] # ".."
                   THEN CleanParts(abs, SubSeq(out, 1, Len(out) - 1), Tail(rest))
                   ELSE IF abs THEN CleanParts(abs, out, Tail(rest))
                        ELSE CleanParts(abs, Append(out, c), Tail(rest))
              ELSE CleanParts(abs, Append(out, c), Tail(rest))

Clean(p) == Path(p.abs, CleanParts(p.abs, <<>>, p.parts))

\* filepath.IsAbs and strings.HasPrefix(path, "..").
IsAbs(p) == p.abs
HasDotDotPrefix(p) == ~p.abs /\ p.parts # <<>> /\ p.parts[1] \in DotDotNames

\* filepath.Join(dir, p): the cleaned concatenation.
Join(dir, p) == Path(dir.abs, CleanParts(dir.abs, <<>>, dir.parts \o p.parts))

\* filepath.Dir of a cleaned path.
Dir(p) == Path(p.abs, SubSeq(p.parts, 1, Len(p.parts) - 1))

IsPrefix(p, q) == Len(p) <= Len(q) /\ SubSeq(q, 1, Len(p)) = p

\* The length of the longest common prefix of two component sequences.
RECURSIVE CommonLen(_, _)
CommonLen(a, b) ==
    IF a = <<>> \/ b = <<>> \/ Head(a) # Head(b) THEN 0
    ELSE 1 + CommonLen(Tail(a), Tail(b))

\* filepath.Rel(base, targ) of two cleaned absolute paths: one ".." for each
\* component of base after the common prefix, then the rest of targ.
Rel(base, targ) ==
    LET k == CommonLen(base.parts, targ.parts) IN
    Path(FALSE, [i \in 1..(Len(base.parts) - k) |-> ".."]
                \o SubSeq(targ.parts, k + 1, Len(targ.parts)))

\* The nodes of the filesystem.
NodeDir == [t |-> "dir", c |-> "", to |-> <<>>]
NodeFile(c) == [t |-> "file", c |-> c, to |-> <<>>]
NodeLink(to) == [t |-> "link", c |-> "", to |-> to]

\* Path resolution from the directory cur: st = "ok" with the place of the
\* node, "noent" with the place the missing last component would have, or
\* "err" (a missing or non-directory component on the way, or ELOOP).
\* followLast says whether a symlink in the last component is followed
\* (os.Stat) or not (os.Lstat).
RECURSIVE Walk(_, _, _, _, _)
Walk(f, cur, rest, followLast, hops) ==
    IF rest = <<>> THEN [st |-> "ok", path |-> cur]
    ELSE LET nxt == Append(cur, Head(rest))
             isLast == Len(rest) = 1
         IN IF nxt \notin DOMAIN f
            THEN IF isLast THEN [st |-> "noent", path |-> nxt]
                 ELSE [st |-> "err", path |-> nxt]
            ELSE IF f[nxt].t = "link" /\ (~isLast \/ followLast)
                 THEN IF hops = 0 THEN [st |-> "err", path |-> nxt]
                      ELSE Walk(f, cur, f[nxt].to \o Tail(rest), followLast, hops - 1)
                 ELSE IF isLast THEN [st |-> "ok", path |-> nxt]
                      ELSE IF f[nxt].t = "dir"
                           THEN Walk(f, nxt, Tail(rest), followLast, hops)
                           ELSE [st |-> "err", path |-> nxt]

Stat(f, p) == Walk(f, <<>>, p.parts, TRUE, MaxHops)
Lstat(f, p) == Walk(f, <<>>, p.parts, FALSE, MaxHops)

IsDirAt(f, r) == r.st = "ok" /\ f[r.path].t = "dir"

\* os.Mkdir(p): the parent must resolve to a directory and p must not exist.
Mkdir(f, p) ==
    LET r == Lstat(f, p) IN
    IF r.st = "noent" THEN [fs |-> (r.path :> NodeDir) @@ f, ok |-> TRUE]
    ELSE [fs |-> f, ok |-> FALSE]

\* os.MkdirAll(p): nothing to do for a directory, an error for another kind
\* of file, else MkdirAll of the parent and Mkdir, whose error is forgiven
\* when p is a directory by then.
RECURSIVE MkdirAll(_, _)
MkdirAll(f, p) ==
    LET s == Stat(f, p) IN
    IF s.st = "ok"
    THEN [fs |-> f, ok |-> f[s.path].t = "dir"]
    ELSE IF p.parts = <<>> THEN [fs |-> f, ok |-> FALSE]
         ELSE LET up == MkdirAll(f, Dir(p)) IN
              IF ~up.ok THEN up
              ELSE LET made == Mkdir(up.fs, p) IN
                   IF made.ok THEN made
                   ELSE [fs |-> up.fs, ok |-> IsDirAt(up.fs, Lstat(up.fs, p))]

\* os.Create(p) / os.WriteFile(p) with content c: through a symlink in the
\* last component, truncating a file, creating a missing one.
Create(f, p, c) ==
    LET s == Stat(f, p) IN
    IF s.st = "ok" /\ f[s.path].t = "file"
    THEN [fs |-> [f EXCEPT ![s.path] = NodeFile(c)], ok |-> TRUE]
    ELSE IF s.st = "noent"
         THEN [fs |-> (s.path :> NodeFile(c)) @@ f, ok |-> TRUE]
         ELSE [fs |-> f, ok |-> FALSE]

\* The nodes below the directory at place q.
Below(f, q) == {x \in DOMAIN f : Len(x) > Len(q) /\ IsPrefix(q, x)}

Without(f, gone) == [x \in DOMAIN f \ gone |-> f[x]]

\* os.Remove(p): unlinks a file or a symlink, removes an empty directory.
Remove(f, p) ==
    LET r == Lstat(f, p) IN
    IF r.st = "ok" /\ (f[r.path].t # "dir" \/ Below(f, r.path) = {})
    THEN Without(f, {r.path})
    ELSE f

\* os.RemoveAll(p): removes p and everything below it, following no symlink.
RemoveAll(f, p) ==
    LET r == Lstat(f, p) IN
    IF r.st = "ok" THEN Without(f, {r.path} \cup Below(f, r.path)) ELSE f

\* os.Symlink(target, p): p must not exist.
Symlink(f, target, p) ==
    LET r == Lstat(f, p) IN
    IF r.st = "noent" THEN [fs |-> (r.path :> NodeLink(target)) @@ f, ok |-> TRUE]
    ELSE [fs |-> f, ok |-> FALSE]

\* A rename that follows dst: when dst resolves to a directory, src is moved
\* into it under its own name.
Rename_IntoDir(f, src, dst) ==
    LET a == Lstat(f, src)
        b == Lstat(f, dst)
        d == Stat(f, dst)
    IN IF a.st = "ok" /\ d.st = "ok" /\ f[d.path].t = "dir"
       THEN [fs |-> (Append(d.path, a.path[Len(a.path)]) :> f[a.path])
                       @@ Without(f, {a.path}),
             ok |-> TRUE]
       ELSE IF a.st = "ok" /\ b.st = "noent"
            THEN [fs |-> (b.path :> f[a.path]) @@ Without(f, {a.path}), ok |-> TRUE]
            ELSE [fs |-> f, ok |-> FALSE]

\* os.Rename(src, dst) of a file or symlink: replaces dst unless dst is a
\* directory.
Rename(f, src, dst) ==
    LET a == Lstat(f, src)
        b == Lstat(f, dst)
    IN IF a.st = "ok" /\ f[a.path].t # "dir"
          /\ (b.st = "noent" \/ (b.st = "ok" /\ f[b.path].t # "dir"))
       THEN [fs |-> (b.path :> f[a.path]) @@ Without(f, {a.path, b.path}), ok |-> TRUE]
       ELSE [fs |-> f, ok |-> FALSE]

(***************************************************************************)
(* Frontend deployer: deploy/frontend.go, server/handler_deploy_frontend.go *)
(***************************************************************************)

\* The site that frontend deploys name, and its frontend_root.
FrontSite == "a.example.com"
FrontendRoot == Path(TRUE, <<"www">>)

\* Deploy requests accepted in one behaviour.
MaxDeploys == 2

\* The commit field of a request; the values matching ^[0-9a-f]{7,40}$.
CommitInputs == {"abc1234", "def5678", "latest", "HEAD"}

\* The characters of those commit ids, and of the empty one.
CommitChars ==
    [c \in CommitInputs \cup {""} |->
        CASE c = "" -> <<>>
          [] c = "abc1234" -> <<"a", "b", "c", "1", "2", "3", "4">>
          [] c = "def5678" -> <<"d", "e", "f", "5", "6", "7", "8">>
          [] c = "latest" -> <<"l", "a", "t", "e", "s", "t">>
          [] OTHER -> <<"H", "E", "A", "D">>]

\* A commitHashRegex without its anchors: seven hex characters in a row
\* anywhere in the string.
commitHashRegex_Unanchored(hash) ==
    \E i \in 1 .. Len(hash) - 6 :
        \A j \in i .. i + 6 :
            hash[j] \in {"0", "1", "2", "3", "4", "5", "6", "7", "8", "9",
                         "a", "b", "c", "d", "e", "f"}

\* commitHashRegex, `^[0-9a-f]{7,40}$`, on a string given as its characters.
commitHashRegex(hash) ==
    /\ Len(hash) >= 7 /\ Len(hash) <= 40
    /\ \A j \in 1 .. Len(hash) :
          hash[j] \in {"0", "1", "2", "3", "4", "5", "6", "7", "8", "9",
                       "a", "b", "c", "d", "e", "f"}

\* isValidCommitHash, on a string given as its characters.
isValidCommitHash(hash) == hash = CommitChars["latest"] \/ commitHashRegex(hash)

\* The entries of uploaded zips: a name and whether it is a directory entry.
Entry(abs, parts) == [name |-> Path(abs, parts), dir |-> FALSE]
DirEntry(abs, parts) == [name |-> Path(abs, parts), dir |-> TRUE]
EIndex == Entry(FALSE, <<"index.html">>)
EDistDir == DirEntry(FALSE, <<"dist">>)
EDistIndex == Entry(FALSE, <<"dist", "index.html">>)
EDistFile == Entry(FALSE, <<"dist">>)
ESlip == Entry(FALSE, <<"..", "x">>)
EDeepSlip == Entry(FALSE, <<"dist", "..", "..", "x">>)
EAbs == Entry(TRUE, <<"x">>)

\* The uploaded zips.
ZipMenu ==
    { <<EIndex>>, <<EDistDir, EDistIndex>>,
      <<EIndex, ESlip>>, <<EDeepSlip, EIndex>>, <<EAbs>>,
      <<EDistFile, EDistIndex, ESlip>> }

\* The errors of extractZipEntry.
ErrZipSlip == "zip slip detected"

\* An extractZipEntry without its checks.
ZipSlipDetected_Off(name, targetDir) == FALSE

\* extractZipEntry's two checks: the cleaned name is absolute or begins with
\* "..", or the joined path is not below targetDir.
ZipSlipDetected(name, targetDir) ==
    LET cleanPath == Clean(name) IN
    \/ HasDotDotPrefix(cleanPath)
    \/ IsAbs(cleanPath)
    \/ HasDotDotPrefix(Rel(targetDir, Join(targetDir, cleanPath)))

\* extractZipEntry: the checks, then MkdirAll for a directory entry, or
\* MkdirAll of the parent and os.Create for a file, written with content c.
extractZipEntry(f, e, targetDir, c) ==
    IF ZipSlipDetected(e.name, targetDir)
    THEN [fs |-> f, err |-> ErrZipSlip]
    ELSE LET fullPath == Join(targetDir, Clean(e.name)) IN
         IF e.dir
         THEN LET d == MkdirAll(f, fullPath) IN
              [fs |-> d.fs, err |-> IF d.ok THEN "nil" ELSE "mkdir"]
         ELSE LET d == MkdirAll(f, Dir(fullPath)) IN
              IF ~d.ok THEN [fs |-> d.fs, err |-> "mkdir parent"]
              ELSE LET w == Create(d.fs, fullPath, c) IN
                   [fs |-> w.fs, err |-> IF w.ok THEN "nil" ELSE "create file"]

\* extractZip: the entries in order, stopping at the first error.
RECURSIVE extractZip(_, _, _, _)
extractZip(f, entries, targetDir, c) ==
    IF entries = <<>> THEN [fs |-> f, err |-> "nil"]
    ELSE LET r == extractZipEntry(f, Head(entries), targetDir, c) IN
         IF r.err # "nil" THEN r
         ELSE extractZip(r.fs, Tail(entries), targetDir, c)

\* updateLatestSymlink's build directories, in its order.
BuildDirs == <<"dist", "build", "out", "public">>

\* updateLatestSymlink: the link target, the commit or the first build
\* directory of it that has an index.html.
\* A detection that is content with the build directory itself.
IndexFound_DirOnly(f, indexPath) == Stat(f, Dir(indexPath)).st = "ok"

\* updateLatestSymlink: `_, err := os.Stat(indexPath); err == nil`.
IndexFound(f, indexPath) == Stat(f, indexPath).st = "ok"

RECURSIVE DetectTarget(_, _, _, _)
DetectTarget(f, frontendRoot, commitHash, subdirs) ==
    IF subdirs = <<>> THEN <<commitHash>>
    ELSE LET indexPath == Join(frontendRoot,
                               Path(FALSE, <<commitHash, Head(subdirs), "index.html">>))
         IN IF IndexFound(f, indexPath)
            THEN <<commitHash, Head(subdirs)>>
            ELSE DetectTarget(f, frontendRoot, commitHash, Tail(subdirs))

CommitDir(commit) == Join(FrontendRoot, Path(FALSE, <<commit>>))
LatestPath == Join(FrontendRoot, Path(FALSE, <<"latest">>))
TmpPath == Join(FrontendRoot, Path(FALSE, <<"latest.tmp">>))

NoNode == [t |-> "none", c |-> "", to |-> <<>>]
NodeAt(f, parts) == IF parts \in DOMAIN f THEN f[parts] ELSE NoNode

\* repeat: the request has the form fields of the request before it, in which
\* Deploy returned no error.
FIdleOp == [commit |-> "", zip |-> <<>>, body |-> "", ul |-> FALSE, fs0 |-> <<>>,
            latest0 |-> NoNode, extracted |-> FALSE, swapped |-> FALSE,
            target |-> <<>>, stage |-> "none", err |-> "nil", repeat |-> FALSE]
\* The answer of DeployFrontend: the HTTP status, the JSON fields `status`
\* (state), `commit_deployed` and `nginx_reloaded` (reloaded), the validator's
\* message and the error.
FNoRet == [status |-> 0, state |-> "", commitDeployed |-> FALSE,
           reloaded |-> FALSE, msg |-> "", err |-> "nil"]
FError(status, err) == [status |-> status, state |-> "error", commitDeployed |-> FALSE,
                        reloaded |-> FALSE, msg |-> "", err |-> err]

InitFrontend ==
    /\ fs = (<<>> :> NodeDir) @@ (FrontendRoot.parts :> NodeDir)
    /\ fpc = "idle"
    /\ fop = FIdleOp
    /\ fret = FNoRet
    /\ nDeploys = 0

\* Deploy returns an error: DeployFrontend answers 500 deployment_failed.
FFail(stage, err) ==
    /\ fpc' = "idle"
    /\ fop' = [fop EXCEPT !.stage = stage, !.err = err]
    /\ fret' = FError(500, err)

\* Server.DeployFrontend up to the call of FrontendDeployer.Deploy: the site
\* lookup and the commit check.
DeployFrontend_Start(commit, zip, body, updateLatest) ==
    /\ fpc = "idle" /\ npc = "idle"
    /\ nDeploys < MaxDeploys
    /\ nDeploys' = nDeploys + 1
    /\ LET op == [FIdleOp EXCEPT !.commit = commit, !.zip = zip, !.body = body,
                                 !.ul = updateLatest, !.fs0 = fs,
                                 !.latest0 = NodeAt(fs, LatestPath.parts),
                                 !.repeat = /\ fop.stage = "done" /\ fop.err = "nil"
                                            /\ fop.commit = commit /\ fop.zip = zip
                                            /\ fop.body = body /\ fop.ul = updateLatest]
       IN IF FrontSite \notin cfgSite
          THEN /\ fpc' = "idle"
               /\ fop' = [op EXCEPT !.stage = "rejected", !.err = "site_not_found"]
               /\ fret' = FError(404, "site_not_found")
          ELSE IF ~isValidCommitHash(CommitChars[commit])
               THEN /\ fpc' = "idle"
                    /\ fop' = [op EXCEPT !.stage = "rejected", !.err = "invalid_commit_hash"]
                    /\ fret' = FError(400, "invalid_commit_hash")
               ELSE /\ fpc' = "mkdir"
                    /\ fop' = [op EXCEPT !.stage = "mkdir"]
                    /\ UNCHANGED fret
    /\ UNCHANGED fs
    /\ UNCHANGED <<updVars, proxyVars, extraVars>>

\* Deploy: os.MkdirAll(commitDir).
Deploy_MkdirAll ==
    /\ fpc = "mkdir"
    /\ LET d == MkdirAll(fs, CommitDir(fop.commit)) IN
       /\ fs' = d.fs
       /\ IF d.ok
          THEN /\ fpc' = "extract"
               /\ fop' = [fop EXCEPT !.stage = "extract"]
               /\ UNCHANGED fret
          ELSE FFail("mkdir", "mkdir commit dir")
    /\ UNCHANGED nDeploys
    /\ UNCHANGED <<updVars, proxyVars, extraVars>>

\* Deploy: extractZip into the commit directory.  The bytes of a file are
\* those of its commit (the commit id is content-bound).
Deploy_extractZip ==
    /\ fpc = "extract"
    /\ LET r == extractZip(fs, fop.zip, CommitDir(fop.commit), fop.commit) IN
       /\ fs' = r.fs
       /\ IF r.err = "nil"
          THEN /\ fpc' = "robots"
               /\ fop' = [fop EXCEPT !.stage = "robots", !.extracted = TRUE]
               /\ UNCHANGED fret
          ELSE FFail("extract", r.err)
    /\ UNCHANGED nDeploys
    /\ UNCHANGED <<updVars, proxyVars, extraVars>>

\* Where Deploy goes after robots.txt when it leaves `latest` alone.
AfterRobots_NoSwap(updateLatest) == "nginx_call"

\* Where Deploy goes after robots.txt: updateLatestSymlink if updateLatest.
AfterRobots(updateLatest) == IF updateLatest THEN "ul_rmtmp" ELSE "nginx_call"

\* Deploy: the default robots.txt, written when os.Stat says it is missing.
Deploy_robots ==
    /\ fpc = "robots"
    /\ LET robotsPath == Join(CommitDir(fop.commit), Path(FALSE, <<"robots.txt">>)) IN
       fs' = IF Stat(fs, robotsPath).st = "noent"
             THEN Create(fs, robotsPath, "robots").fs
             ELSE fs
    /\ fpc' = AfterRobots(fop.ul)
    /\ fop' = [fop EXCEPT !.stage = "promote"]
    /\ UNCHANGED <<fret, nDeploys>>
    /\ UNCHANGED <<updVars, proxyVars, extraVars>>

\* updateLatestSymlink: os.Remove(tmpPath).
updateLatestSymlink_RemoveTmp ==
    /\ fpc = "ul_rmtmp"
    /\ fs' = Remove(fs, TmpPath)
    /\ fpc' = "ul_heal"
    /\ UNCHANGED <<fop, fret, nDeploys>>
    /\ UNCHANGED <<updVars, proxyVars, extraVars>>

\* A heal that removes whatever is at `latest`.
NeedsHeal_Always(node) == TRUE

\* updateLatestSymlink: `latest` is removed when it is no symlink.
NeedsHeal(node) == node.t # "link"

\* updateLatestSymlink: os.Lstat(latestPath) and os.RemoveAll of a `latest`
\* that is no symlink.
updateLatestSymlink_Heal(ok) ==
    /\ fpc = "ul_heal"
    /\ LET l == Lstat(fs, LatestPath) IN
       IF l.st = "ok" /\ NeedsHeal(fs[l.path])
       THEN IF ok
            THEN /\ fs' = RemoveAll(fs, LatestPath)
                 /\ fpc' = "ul_symlink"
                 /\ UNCHANGED <<fop, fret>>
            ELSE /\ FFail("promote", "remove existing latest")
                 /\ UNCHANGED fs
       ELSE /\ fpc' = "ul_symlink"
            /\ UNCHANGED <<fs, fop, fret>>
    /\ UNCHANGED nDeploys
    /\ UNCHANGED <<updVars, proxyVars, extraVars>>

\* updateLatestSymlink: the target detection and os.Symlink(target, tmpPath).
updateLatestSymlink_Symlink(ok) ==
    /\ fpc = "ul_symlink"
    /\ LET target == DetectTarget(fs, FrontendRoot, fop.commit, BuildDirs)
           r == Symlink(fs, target, TmpPath)
       IN IF ok /\ r.ok
          THEN /\ fs' = r.fs
               /\ fpc' = "ul_rename"
               /\ fop' = [fop EXCEPT !.target = target]
               /\ UNCHANGED fret
          ELSE /\ FFail("promote", "create temp symlink")
               /\ UNCHANGED fs
    /\ UNCHANGED nDeploys
    /\ UNCHANGED <<updVars, proxyVars, extraVars>>

\* updateLatestSymlink: os.Rename(tmpPath, latestPath), and os.Remove(tmpPath)
\* when it fails.
updateLatestSymlink_Rename(ok) ==
    /\ fpc = "ul_rename"
    /\ LET r == Rename(fs, TmpPath, LatestPath) IN
       IF ok /\ r.ok
       THEN /\ fs' = r.fs
            /\ fpc' = "nginx_call"
            /\ fop' = [fop EXCEPT !.swapped = TRUE]
            /\ UNCHANGED fret
       ELSE /\ fs' = Remove(fs, TmpPath)
            /\ FFail("promote", "rename symlink")
    /\ UNCHANGED nDeploys
    /\ UNCHANGED <<updVars, proxyVars, extraVars>>

\* Deploy: DeploySiteConfig for a site without backend and without ssl, which
\* passes the config on to DeploySiteConfigRaw.
Deploy_DeploySiteConfig ==
    /\ fpc = "nginx_call" /\ npc = "idle"
    /\ DeploySiteConfigRaw_Begin(FrontSite, fop.body, "frontend")
    /\ fpc' = "nginx"
    /\ fop' = [fop EXCEPT !.stage = "nginx"]
    /\ UNCHANGED <<fs, fret, nDeploys>>
    /\ UNCHANGED <<cfgSite, available, enabled, overrideConf>>
    /\ UNCHANGED <<updVars, extraVars>>

\* What DeployFrontend answers after Deploy returned (reloaded, errMsg, err):
\* 500 deployment_failed, 422 partially_deployed with commit_deployed true and
\* nginx_reloaded false, or 200 deployed.
DeployFrontendAnswer(r) ==
    IF r.err # "nil" THEN FError(500, r.err)
    ELSE IF ~r.reloaded
         THEN [status |-> 422, state |-> "partially_deployed", commitDeployed |-> TRUE,
               reloaded |-> FALSE, msg |-> r.msg, err |-> "nil"]
         ELSE [status |-> 200, state |-> "deployed", commitDeployed |-> FALSE,
               reloaded |-> TRUE, msg |-> "", err |-> "nil"]

\* Deploy returns what the manager returned; DeployFrontend answers 500,
\* 422 partially_deployed or 200.
Deploy_Return ==
    /\ fpc = "nginx" /\ npc = "idle" /\ nret.caller = "frontend"
    /\ fpc' = "idle"
    /\ fop' = [fop EXCEPT !.stage = "done", !.err = nret.err]
    /\ fret' = DeployFrontendAnswer(nret)
    /\ UNCHANGED <<fs, nDeploys>>
    /\ UNCHANGED <<updVars, proxyVars, extraVars>>

NextFrontend ==
    \* the guard of DeployFrontend_Start, repeated here so that the inputs
    \* are enumerated only in the states where a request can start
    \/ /\ fpc = "idle" /\ nDeploys < MaxDeploys
       /\ \E c \in CommitInputs, z \in ZipMenu, b \in {"good1", "bad"}, ul \in BOOLEAN :
             DeployFrontend_Start(c, z, b, ul)
    \/ Deploy_MkdirAll
    \/ Deploy_extractZip
    \/ Deploy_robots
    \/ updateLatestSymlink_RemoveTmp
    \/ \E ok \in BOOLEAN : updateLatestSymlink_Heal(ok)
    \/ \E ok \in BOOLEAN : updateLatestSymlink_Symlink(ok)
    \/ \E ok \in BOOLEAN : updateLatestSymlink_Rename(ok)
    \/ Deploy_DeploySiteConfig
    \/ NextManagerStep
    \/ Deploy_Return

(***************************************************************************)
(* Site handlers: server/handler_site_create.go, handler_site_destroy.go,  *)
(* config/config.go (AddSite, RemoveSite), ssl/certbot.go (ObtainCert)     *)
(***************************************************************************)

\* The configuration file: whether it parses, and the sites it lists.
DiskOf(sites) == [ok |-> TRUE, sites |-> sites]
DiskPartial == [ok |-> FALSE, sites |-> {}]

\* The frontend_root of a site.
SiteRoot(site) == IF site = FrontSite THEN FrontendRoot ELSE Path(TRUE, <<"www2">>)

SIdleOp == [kind |-> "none", domain |-> "", ssl |-> FALSE, backend |-> FALSE,
            cfg0 |-> {}, disk0 |-> DiskOf({}), httpOnly |-> "none", acme |-> "none",
            certAtAdd |-> FALSE, regReturned |-> FALSE, regErr |-> "nil"]
SNoRet == [status |-> 0, error |-> ""]

\* The daemon has loaded a configuration with one site.
InitSite ==
    /\ diskSite = DiskOf({FrontSite})
    /\ certs = {}
    /\ spc = "idle"
    /\ sop = SIdleOp
    /\ sret = SNoRet

SReturn(status, error) ==
    /\ spc' = "idle"
    /\ sret' = [status |-> status, error |-> error]

\* The file written by AddSite / RemoveSite after the map was changed to
\* `sites`: os.Create fails, or the encoder fails after the truncation, or
\* the file is written.
SaveFile(sites, outcome) ==
    CASE outcome = "create_err" -> diskSite
      [] outcome = "encode_err" -> DiskPartial
      [] OTHER -> DiskOf(sites)
SaveOutcomes == {"ok", "create_err", "encode_err"}
SaveErr(outcome) ==
    CASE outcome = "create_err" -> "create config file"
      [] outcome = "encode_err" -> "encode config"
      [] OTHER -> "nil"

\* Server.SiteCreate up to the certificate: the body checks, the lookup in
\* s.cfg.Site, and the site record.
SiteCreate_Start(domain, ssl, backend) ==
    /\ spc = "idle" /\ npc = "idle" /\ fpc = "idle"
    /\ sop' = [SIdleOp EXCEPT !.kind = "create", !.domain = domain, !.ssl = ssl,
                              !.backend = backend, !.cfg0 = cfgSite, !.disk0 = diskSite]
    /\ IF domain \in cfgSite
       THEN SReturn(409, "site_exists")
       ELSE /\ spc' = IF ssl THEN "sc_http_only" ELSE "sc_add"
            /\ UNCHANGED sret
    /\ nret' = NNoRet
    /\ UNCHANGED <<cfgSite, available, enabled, overrideConf, npc, nop>>
    /\ UNCHANGED <<diskSite, certs>>
    /\ UNCHANGED <<updVars, frontVars, notSiteExtra>>

\* SiteCreate: the call of DeployHTTPOnlyConfig(req.Domain).
SiteCreate_DeployHTTPOnlyConfig(ok) ==
    /\ spc = "sc_http_only" /\ nret = NNoRet
    /\ DeployHTTPOnlyConfig_Write(sop.domain, ok)

\* A SiteCreate that goes on to the certificate whatever DeployHTTPOnlyConfig
\* returned.
AfterHTTPOnly_Ignored(err) == "sc_acme"

\* SiteCreate: DeployHTTPOnlyConfig has returned; nginx_setup_failed on error.
AfterHTTPOnly(err) == IF err = "nil" THEN "sc_acme" ELSE "return"

SiteCreate_AfterHTTPOnly ==
    /\ spc = "sc_http_only" /\ npc = "idle" /\ nret.kind = "deploy_http_only"
    /\ sop' = [sop EXCEPT !.httpOnly = IF nret.err = "nil" THEN "ok" ELSE "failed"]
    /\ IF AfterHTTPOnly(nret.err) = "return"
       THEN SReturn(500, "nginx_setup_failed")
       ELSE /\ spc' = "sc_acme"
            /\ UNCHANGED sret
    /\ UNCHANGED <<diskSite, certs>>
    /\ UNCHANGED <<updVars, proxyVars, frontVars, notSiteExtra>>

\* ssl.Manager.ObtainCert: nil when the certificate exists; else MkdirAll of
\* the ACME directory, certbot, and the check that the files are there.
ObtainCertOutcomes == {"ok", "mkdir_err", "certbot_err", "no_cert"}

\* A SiteCreate that leaves the HTTP-only config when ObtainCert fails.
AfterObtainCert_NoCleanup(err) == IF err = "nil" THEN "sc_add" ELSE "sc_cert_failed"

\* SiteCreate: ObtainCert has returned; on error RemoveSiteConfigByDomain.
AfterObtainCert(err) == IF err = "nil" THEN "sc_add" ELSE "sc_cleanup"

SiteCreate_ObtainCert(outcome) ==
    /\ spc = "sc_acme"
    /\ LET has == sop.domain \in certs
           okNow == has \/ outcome = "ok"
       IN /\ certs' = IF okNow THEN certs \cup {sop.domain} ELSE certs
          /\ sop' = [sop EXCEPT !.acme = IF okNow THEN "ok" ELSE "failed"]
          /\ spc' = AfterObtainCert(IF okNow THEN "nil" ELSE "certbot failed")
    /\ UNCHANGED <<diskSite, sret>>
    /\ UNCHANGED <<updVars, proxyVars, frontVars, notSiteExtra>>

\* SiteCreate: the call of RemoveSiteConfigByDomain(req.Domain).
SiteCreate_RemoveSiteConfigByDomain ==
    /\ spc = "sc_cleanup" /\ nret.kind = "deploy_http_only"
    /\ RemoveSiteConfigByDomain(sop.domain)

\* SiteCreate: the answer cert_generation_failed.
SiteCreate_CertFailed ==
    /\ \/ spc = "sc_cleanup" /\ nret.kind = "remove_by_domain"
       \/ spc = "sc_cert_failed"
    /\ SReturn(500, "cert_generation_failed")
    /\ UNCHANGED <<diskSite, certs, sop>>
    /\ UNCHANGED <<updVars, proxyVars, frontVars, notSiteExtra>>

\* Config.AddSite under c.mu: the existence check, c.Site[name] = site, and
\* the save; SiteCreate answers save_failed on error, else goes on to the
\* backend config.
SiteCreate_AddSite(outcome) ==
    /\ spc = "sc_add"
    /\ IF sop.domain \in cfgSite
       THEN /\ sop' = [sop EXCEPT !.regReturned = TRUE, !.regErr = "already exists",
                                  !.certAtAdd = sop.domain \in certs]
            /\ SReturn(500, "save_failed")
            /\ UNCHANGED <<cfgSite, diskSite>>
       ELSE /\ cfgSite' = cfgSite \cup {sop.domain}
            /\ diskSite' = SaveFile(cfgSite', outcome)
            /\ sop' = [sop EXCEPT !.regReturned = TRUE, !.regErr = SaveErr(outcome),
                                  !.certAtAdd = sop.domain \in certs]
            /\ IF outcome # "ok"
               THEN SReturn(500, "save_failed")
               ELSE IF sop.backend
                    THEN spc' = "sc_nginx" /\ UNCHANGED sret
                    ELSE SReturn(201, "")
    /\ nret' = NNoRet
    /\ UNCHANGED <<available, enabled, overrideConf, npc, nop>>
    /\ UNCHANGED certs
    /\ UNCHANGED <<updVars, frontVars, notSiteExtra>>

\* SiteCreate: the generated backend config goes to DeploySiteConfigRaw.
SiteCreate_DeploySiteConfigRaw(body) ==
    /\ spc = "sc_nginx" /\ npc = "idle" /\ nret = NNoRet
    /\ DeploySiteConfigRaw_Begin(sop.domain, body, "site_create")
    /\ UNCHANGED <<cfgSite, available, enabled, overrideConf>>
    /\ UNCHANGED siteVars
    /\ UNCHANGED <<updVars, frontVars, notSiteExtra>>

\* SiteCreate: the answer 201, whatever DeploySiteConfigRaw returned.
SiteCreate_Created ==
    /\ spc = "sc_nginx" /\ npc = "idle" /\ nret.caller = "site_create"
    /\ SReturn(201, "")
    /\ UNCHANGED <<diskSite, certs, sop>>
    /\ UNCHANGED <<updVars, proxyVars, frontVars, notSiteExtra>>

\* Server.SiteDestroy: the lookup in s.cfg.Site.
SiteDestroy_Start(site) ==
    /\ spc = "idle" /\ npc = "idle" /\ fpc = "idle"
    /\ sop' = [SIdleOp EXCEPT !.kind = "destroy", !.domain = site,
                              !.cfg0 = cfgSite, !.disk0 = diskSite]
    /\ IF site \notin cfgSite
       THEN SReturn(404, "site_not_found")
       ELSE spc' = "sd_nginx" /\ UNCHANGED sret
    /\ nret' = NNoRet
    /\ UNCHANGED <<cfgSite, available, enabled, overrideConf, npc, nop>>
    /\ UNCHANGED <<diskSite, certs>>
    /\ UNCHANGED <<updVars, frontVars, notSiteExtra>>

\* SiteDestroy: the call of RemoveSiteConfig(siteName).
SiteDestroy_RemoveSiteConfig ==
    /\ spc = "sd_nginx" /\ nret = NNoRet
    /\ RemoveSiteConfig_Remove(sop.domain)

\* SiteDestroy: RemoveSiteConfig has returned (its error is only logged);
\* os.RemoveAll(site.FrontendRoot).
SiteDestroy_RemoveAll ==
    /\ spc = "sd_nginx" /\ npc = "idle" /\ nret.kind = "remove_site"
    /\ fs' = RemoveAll(fs, SiteRoot(sop.domain))
    /\ spc' = "sd_remove"
    /\ UNCHANGED <<diskSite, certs, sop, sret>>
    /\ UNCHANGED <<fpc, fop, fret, nDeploys>>
    /\ UNCHANGED <<updVars, proxyVars, notSiteExtra>>

\* Config.RemoveSite under c.mu: the existence check, delete(c.Site, name)
\* and the save; SiteDestroy answers 200 either way.
SiteDestroy_RemoveSite(outcome) ==
    /\ spc = "sd_remove"
    /\ IF sop.domain \notin cfgSite
       THEN /\ sop' = [sop EXCEPT !.regReturned = TRUE, !.regErr = "does not exist"]
            /\ UNCHANGED <<cfgSite, diskSite>>
       ELSE /\ cfgSite' = cfgSite \ {sop.domain}
            /\ diskSite' = SaveFile(cfgSite', outcome)
            /\ sop' = [sop EXCEPT !.regReturned = TRUE, !.regErr = SaveErr(outcome)]
    /\ SReturn(200, "")
    /\ UNCHANGED <<available, enabled, overrideConf, npc, nop, nret>>
    /\ UNCHANGED certs
    /\ UNCHANGED <<updVars, frontVars, notSiteExtra>>

NextSite ==
    \/ \E d \in Sites, ssl, backend \in BOOLEAN : SiteCreate_Start(d, ssl, backend)
    \/ \E ok \in BOOLEAN : SiteCreate_DeployHTTPOnlyConfig(ok)
    \/ DeployHTTPOnlyConfig_Remove
    \/ \E ok \in BOOLEAN : DeployHTTPOnlyConfig_Symlink(ok)
    \/ DeployHTTPOnlyConfig_Validate
    \/ \E ok \in BOOLEAN : DeployHTTPOnlyConfig_Reload(ok)
    \/ SiteCreate_AfterHTTPOnly
    \/ \E o \in ObtainCertOutcomes : SiteCreate_ObtainCert(o)
    \/ SiteCreate_RemoveSiteConfigByDomain
    \/ SiteCreate_CertFailed
    \/ \E o \in SaveOutcomes : SiteCreate_AddSite(o)
    \/ \E b \in {"good1", "bad"} : SiteCreate_DeploySiteConfigRaw(b)
    \/ NextManagerStep
    \/ SiteCreate_Created
    \/ \E d \in Sites : SiteDestroy_Start(d)
    \/ SiteDestroy_RemoveSiteConfig
    \/ \E ok \in BOOLEAN : RemoveSiteConfig_Override(ok)
    \/ \E ok \in BOOLEAN : RemoveSiteConfig_ValidateReload(ok)
    \/ SiteDestroy_RemoveAll
    \/ \E o \in SaveOutcomes : SiteDestroy_RemoveSite(o)

(***************************************************************************)
(* Concurrent requests: the handlers as goroutines over the registry, its  *)
(* lock (config/config.go) and the paths they mutate.  A manager call, the *)
(* promotion of `latest` and the replacement of the binary are each two    *)
(* steps, the first and the last mutation of their paths.                  *)
(***************************************************************************)

\* The request goroutines, and the requests started in one behaviour.
Procs == {1, 2}
MaxRequests == 3

NoLock == [w |-> 0, r |-> {}]
CIdleOp == [kind |-> "none", domain |-> "", backend |-> FALSE, ip |-> 0,
            ssl0 |-> FALSE, ip0 |-> 0, phase |-> 0,
            ssl |-> FALSE, status |-> 0, error |-> ""]

\* NextJailIP: one more than the highest last octet among the sites.
NextJailIP(ips) ==
    1 + (CHOOSE m \in {ips[s] : s \in Sites} \cup {0} : \A s \in Sites : ips[s] <= m)

\* The daemon has loaded a configuration with one ssl site; no request runs.
InitConc ==
    /\ mu = NoLock
    /\ jailIP = [s \in Sites |-> 0]
    /\ sslSite = {FrontSite}
    /\ cpc = [p \in Procs |-> "idle"]
    /\ cop = [p \in Procs |-> CIdleOp]
    /\ mpc = "idle"
    /\ nReq = 0

concFrame == <<updVars, frontVars, available, enabled, overrideConf, npc, nop, nret,
               notConcExtra>>

\* A goroutine moves on; the registry and its lock stay.
Goto(p, pc) ==
    /\ cpc' = [cpc EXCEPT ![p] = pc]
    /\ UNCHANGED <<mu, jailIP, sslSite, cop, mpc, nReq, cfgSite, diskSite>>
    /\ UNCHANGED concFrame

\* The first position of each handler.
FirstPc(kind) ==
    CASE kind = "create" -> "sc_lookup"
      [] kind = "destroy" -> "sd_lookup"
      [] kind = "init" -> "si_lookup"
      [] kind = "frontend" -> "df_lookup"
      [] OTHER -> "up_first"
RequestKinds == {"create", "destroy", "init", "frontend", "self"}

\* The server hands a request to a goroutine of its own.
Handler_Begin(p, kind, domain, backend, ssl) ==
    /\ cpc[p] = "idle"
    /\ nReq < MaxRequests
    /\ nReq' = nReq + 1
    /\ cpc' = [cpc EXCEPT ![p] = FirstPc(kind)]
    /\ cop' = [cop EXCEPT ![p] = [CIdleOp EXCEPT !.kind = kind, !.domain = domain,
                                                 !.backend = backend, !.ssl = ssl]]
    /\ UNCHANGED <<mu, jailIP, sslSite, mpc, cfgSite, diskSite>>
    /\ UNCHANGED concFrame

\* Where SiteCreate goes once the site record is built: the HTTP-only config
\* when ssl_enabled, else AddSite.
BeforeAddSite(op) == IF op.ssl THEN "sc_httponly" ELSE "add_lock"

\* SiteCreate: `s.cfg.Site[req.Domain]`, read with no lock.
SiteCreate_Lookup(p) ==
    /\ cpc[p] = "sc_lookup"
    /\ IF cop[p].domain \in cfgSite
       THEN /\ cpc' = [cpc EXCEPT ![p] = "idle"]
            /\ cop' = [cop EXCEPT ![p].status = 409, ![p].error = "site_exists"]
       ELSE /\ cpc' = [cpc EXCEPT ![p] = IF cop[p].backend THEN "ip_rlock"
                                         ELSE BeforeAddSite(cop[p])]
            /\ UNCHANGED cop
    /\ UNCHANGED <<mu, jailIP, sslSite, mpc, nReq, cfgSite, diskSite>>
    /\ UNCHANGED concFrame

\* NextJailIP: c.mu.RLock().
NextJailIP_RLock(p) ==
    /\ cpc[p] = "ip_rlock"
    /\ mu.w = 0
    /\ mu' = [mu EXCEPT !.r = @ \cup {p}]
    /\ cpc' = [cpc EXCEPT ![p] = "ip_read"]
    /\ UNCHANGED <<jailIP, sslSite, cop, mpc, nReq, cfgSite, diskSite>>
    /\ UNCHANGED concFrame

\* NextJailIP: the loop over c.Site, the result, and the deferred RUnlock.
NextJailIP_Read(p) ==
    /\ cpc[p] = "ip_read"
    /\ cop' = [cop EXCEPT ![p].ip = NextJailIP(jailIP)]
    /\ mu' = [mu EXCEPT !.r = @ \ {p}]
    /\ cpc' = [cpc EXCEPT ![p] = BeforeAddSite(cop[p])]
    /\ UNCHANGED <<jailIP, sslSite, mpc, nReq, cfgSite, diskSite>>
    /\ UNCHANGED concFrame

\* SiteCreate with ssl_enabled: DeployHTTPOnlyConfig(req.Domain), which writes
\* available/<domain>.conf and links it into enabled/, and removes both when
\* the validator rejects; nginx_setup_failed on error.
SiteCreate_HTTPOnly(p, ok) ==
    /\ cpc[p] = "sc_httponly"
    /\ LET d == cop[p].domain IN
       IF ok
       THEN /\ available' = [available EXCEPT ![d] = GenerateHTTPOnlyConfig(d)]
            /\ enabled' = [enabled EXCEPT ![d] = TRUE]
            /\ cpc' = [cpc EXCEPT ![p] = "sc_cert"]
            /\ UNCHANGED cop
       ELSE /\ available' = [available EXCEPT ![d] = NoConf]
            /\ enabled' = [enabled EXCEPT ![d] = FALSE]
            /\ cpc' = [cpc EXCEPT ![p] = "idle"]
            /\ cop' = [cop EXCEPT ![p].status = 500, ![p].error = "nginx_setup_failed"]
    /\ UNCHANGED <<mu, jailIP, sslSite, mpc, nReq, cfgSite, diskSite>>
    /\ UNCHANGED <<updVars, frontVars, overrideConf, npc, nop, nret, notConcExtra>>

\* SiteCreate with ssl_enabled: ObtainCert(req.Domain); on error
\* RemoveSiteConfigByDomain and the answer cert_generation_failed.
SiteCreate_Cert(p, obtained) ==
    /\ cpc[p] = "sc_cert"
    /\ LET d == cop[p].domain IN
       IF obtained
       THEN /\ cpc' = [cpc EXCEPT ![p] = "add_lock"]
            /\ UNCHANGED <<cop, available, enabled>>
       ELSE /\ available' = [available EXCEPT ![d] = NoConf]
            /\ enabled' = [enabled EXCEPT ![d] = FALSE]
            /\ cpc' = [cpc EXCEPT ![p] = "idle"]
            /\ cop' = [cop EXCEPT ![p].status = 500, ![p].error = "cert_generation_failed"]
    /\ UNCHANGED <<mu, jailIP, sslSite, mpc, nReq, cfgSite, diskSite>>
    /\ UNCHANGED <<updVars, frontVars, overrideConf, npc, nop, nret, notConcExtra>>

\* AddSite / RemoveSite: c.mu.Lock().
Config_Lock(p) ==
    /\ cpc[p] \in {"add_lock", "rm_lock"}
    /\ mu = NoLock
    /\ mu' = [mu EXCEPT !.w = p]
    /\ cpc' = [cpc EXCEPT ![p] = IF cpc[p] = "add_lock" THEN "add_write" ELSE "rm_write"]
    /\ UNCHANGED <<jailIP, sslSite, cop, mpc, nReq, cfgSite, diskSite>>
    /\ UNCHANGED concFrame

\* AddSite with the lock held: the existence check, c.Site[name] = site, the
\* save and the deferred Unlock.  On an error SiteCreate answers 500
\* save_failed; otherwise it goes on to the backend config and answers 201
\* whatever that deploy returns.
AddSite_Write(p, outcome) ==
    /\ cpc[p] = "add_write"
    /\ mu' = NoLock
    /\ IF cop[p].domain \in cfgSite
       THEN /\ cpc' = [cpc EXCEPT ![p] = "idle"]
            /\ cop' = [cop EXCEPT ![p].status = 500, ![p].error = "already exists"]
            /\ UNCHANGED <<cfgSite, jailIP, diskSite>>
       ELSE /\ cfgSite' = cfgSite \cup {cop[p].domain}
            /\ jailIP' = [jailIP EXCEPT ![cop[p].domain] = cop[p].ip]
            /\ diskSite' = SaveFile(cfgSite', outcome)
            /\ cpc' = [cpc EXCEPT ![p] = IF outcome = "ok" /\ cop[p].backend
                                         THEN "ds_lookup" ELSE "idle"]
            /\ cop' = [cop EXCEPT ![p].status = IF outcome = "ok" THEN 201 ELSE 500,
                                  ![p].error = SaveErr(outcome)]
    /\ UNCHANGED <<sslSite, mpc, nReq>>
    /\ UNCHANGED concFrame

\* The Manager's lookup of m.cfg.Site[siteName], read with no lock, at the
\* head of DeploySiteConfig(Raw) and of RemoveSiteConfig.
Manager_Lookup(p) ==
    /\ cpc[p] \in {"ds_lookup", "rs_lookup"}
    /\ Goto(p, IF cop[p].domain \in cfgSite
               THEN (IF cpc[p] = "ds_lookup" THEN "ds_first" ELSE "rs_first")
               ELSE (IF cpc[p] = "rs_lookup" THEN "sd_removeall" ELSE "idle"))

\* The first mutation of a manager call: os.WriteFile of available/<site>.conf,
\* or os.Remove of enabled/<site>.conf.
Manager_FirstStep(p) ==
    /\ cpc[p] \in {"ds_first", "rs_first"}
    /\ Goto(p, IF cpc[p] = "ds_first" THEN "ds_mid" ELSE "rs_mid")

\* Where a handler goes when its manager call has returned.
AfterManager(op, reloaded) ==
    CASE op.kind = "init" /\ op.phase = 1 /\ reloaded -> "si_enable"
      [] op.kind = "destroy" -> "sd_removeall"
      [] OTHER -> "idle"

\* The last mutation of a manager call (the link, the override file, the
\* reload, or their undoing when validation fails) and its return.
Manager_LastStep(p, reloaded) ==
    /\ cpc[p] \in {"ds_mid", "rs_mid"}
    /\ Goto(p, AfterManager(cop[p], reloaded))

\* SiteDestroy: `s.cfg.Site[siteName]`, read with no lock.
SiteDestroy_Lookup(p) ==
    /\ cpc[p] = "sd_lookup"
    /\ Goto(p, IF cop[p].domain \in cfgSite THEN "rs_lookup" ELSE "idle")

\* SiteDestroy: os.RemoveAll(site.FrontendRoot), then cfg.RemoveSite.
SiteDestroy_RemoveFrontend(p) ==
    /\ cpc[p] = "sd_removeall"
    /\ Goto(p, "rm_lock")

\* RemoveSite with the lock held: the existence check, delete(c.Site, name),
\* the save and the deferred Unlock.
RemoveSite_Write(p, outcome) ==
    /\ cpc[p] = "rm_write"
    /\ mu' = NoLock
    /\ IF cop[p].domain \notin cfgSite
       THEN UNCHANGED <<cfgSite, jailIP, sslSite, diskSite>>
       ELSE /\ cfgSite' = cfgSite \ {cop[p].domain}
            /\ jailIP' = [jailIP EXCEPT ![cop[p].domain] = 0]
            /\ sslSite' = sslSite \ {cop[p].domain}
            /\ diskSite' = SaveFile(cfgSite', outcome)
    /\ cpc' = [cpc EXCEPT ![p] = "idle"]
    /\ UNCHANGED <<cop, mpc, nReq>>
    /\ UNCHANGED concFrame

\* SiteInit: `site, ok := s.cfg.Site[siteName]`, a copy read with no lock.
SiteInit_Lookup(p) ==
    /\ cpc[p] = "si_lookup"
    /\ LET d == cop[p].domain
           found == d \in cfgSite
           ssl == d \in sslSite
       IN  /\ cop' = [cop EXCEPT ![p].ssl0 = found /\ ssl,
                                 ![p].ip0 = IF found THEN jailIP[d] ELSE 0,
                                 ![p].phase = IF found /\ ssl THEN 1 ELSE 3]
           /\ cpc' = [cpc EXCEPT ![p] = IF ~found THEN "idle"
                                        ELSE IF ssl THEN "si_disable" ELSE "ds_lookup"]
    /\ UNCHANGED <<mu, jailIP, sslSite, mpc, nReq, cfgSite, diskSite>>
    /\ UNCHANGED concFrame

\* s.cfg.Site[siteName] = site: the handler's copy stored with no lock.
StoreCopy(p, ssl) ==
    /\ cfgSite' = cfgSite \cup {cop[p].domain}
    /\ jailIP' = [jailIP EXCEPT ![cop[p].domain] = cop[p].ip0]
    /\ sslSite' = IF ssl THEN sslSite \cup {cop[p].domain} ELSE sslSite \ {cop[p].domain}

\* SiteInit: site.SSLEnabled = false; s.cfg.Site[siteName] = site.
SiteInit_DisableSSL(p) ==
    /\ cpc[p] = "si_disable"
    /\ StoreCopy(p, FALSE)
    /\ cpc' = [cpc EXCEPT ![p] = "ds_lookup"]
    /\ UNCHANGED <<mu, cop, mpc, nReq, diskSite>>
    /\ UNCHANGED concFrame

\* SiteInit: site.SSLEnabled = true; s.cfg.Site[siteName] = site; ObtainCert;
\* the HTTPS config is deployed when the certificate was obtained.
SiteInit_EnableSSL(p, obtained) ==
    /\ cpc[p] = "si_enable"
    /\ StoreCopy(p, TRUE)
    /\ cop' = [cop EXCEPT ![p].phase = 3]
    /\ cpc' = [cpc EXCEPT ![p] = IF obtained THEN "ds_lookup" ELSE "idle"]
    /\ UNCHANGED <<mu, mpc, nReq, diskSite>>
    /\ UNCHANGED concFrame

\* DeployFrontend: `s.cfg.Site[siteName]`, read with no lock.
DeployFrontend_Lookup(p) ==
    /\ cpc[p] = "df_lookup"
    /\ Goto(p, IF cop[p].domain \in cfgSite THEN "ul_first" ELSE "idle")

\* updateLatestSymlink: os.Remove(latest.tmp) and os.Symlink(target, latest.tmp).
updateLatestSymlink_First(p) ==
    /\ cpc[p] = "ul_first"
    /\ Goto(p, "ul_mid")

\* updateLatestSymlink: os.Rename(latest.tmp, latest); the deploy goes on to
\* the site's nginx config.
updateLatestSymlink_Last(p) ==
    /\ cpc[p] = "ul_mid"
    /\ Goto(p, "ds_lookup")

\* Update: os.WriteFile(P.new).
DeploySelf_First(p) ==
    /\ cpc[p] = "up_first"
    /\ Goto(p, "up_mid")

\* Update: the last step on P, P.new and P.old (a rename or a removal).
DeploySelf_Last(p) ==
    /\ cpc[p] = "up_mid"
    /\ Goto(p, "idle")

\* The health monitor's ticker fires.
Monitor_Tick ==
    /\ mpc = "idle"
    /\ mpc' = "hm_range"
    /\ UNCHANGED <<mu, jailIP, sslSite, cpc, cop, nReq, cfgSite, diskSite>>
    /\ UNCHANGED concFrame

\* checkAllServices: `for siteName, site := range m.cfg.Site`, with no lock
\* on the registry.
Monitor_checkAllServices ==
    /\ mpc = "hm_range"
    /\ mpc' = "idle"
    /\ UNCHANGED <<mu, jailIP, sslSite, cpc, cop, nReq, cfgSite, diskSite>>
    /\ UNCHANGED concFrame

NextConc ==
    \/ \E p \in Procs, kind \in RequestKinds, d \in Sites, backend, ssl \in BOOLEAN :
          Handler_Begin(p, kind, d, backend /\ kind = "create", ssl /\ kind = "create")
    \/ \E p \in Procs : SiteCreate_Lookup(p)
    \/ \E p \in Procs, ok \in BOOLEAN : SiteCreate_HTTPOnly(p, ok)
    \/ \E p \in Procs, obtained \in BOOLEAN : SiteCreate_Cert(p, obtained)
    \/ \E p \in Procs : NextJailIP_RLock(p)
    \/ \E p \in Procs : NextJailIP_Read(p)
    \/ \E p \in Procs : Config_Lock(p)
    \/ \E p \in Procs, outcome \in SaveOutcomes : AddSite_Write(p, outcome)
    \/ \E p \in Procs : Manager_Lookup(p)
    \/ \E p \in Procs : Manager_FirstStep(p)
    \/ \E p \in Procs, reloaded \in BOOLEAN : Manager_LastStep(p, reloaded)
    \/ \E p \in Procs : SiteDestroy_Lookup(p)
    \/ \E p \in Procs : SiteDestroy_RemoveFrontend(p)
    \/ \E p \in Procs, outcome \in SaveOutcomes : RemoveSite_Write(p, outcome)
    \/ \E p \in Procs : SiteInit_Lookup(p)
    \/ \E p \in Procs : SiteInit_DisableSSL(p)
    \/ \E p \in Procs, obtained \in BOOLEAN : SiteInit_EnableSSL(p, obtained)
    \/ \E p \in Procs : DeployFrontend_Lookup(p)
    \/ \E p \in Procs : updateLatestSymlink_First(p)
    \/ \E p \in Procs : updateLatestSymlink_Last(p)
    \/ \E p \in Procs : DeploySelf_First(p)
    \/ \E p \in Procs : DeploySelf_Last(p)
    \/ Monitor_Tick
    \/ Monitor_checkAllServices

(***************************************************************************)
(* Daemon processes sharing one PID file path (pidfile/pidfile.go and      *)
(* cmd/serve.go).  The lock is flock(2)'s: it belongs to the inode that    *)
(* the process opened, and the kernel drops it when the process exits.     *)
(***************************************************************************)

DProcs == {1, 2, 3}
MaxStarts == 4
Inodes == 1 .. MaxStarts

InitPid ==
    /\ pidPath = 0
    /\ flock = [i \in Inodes |-> 0]
    /\ pfd = [p \in DProcs |-> 0]
    /\ ppc = [p \in DProcs |-> "off"]
    /\ nStarts = 0

pidFrame == <<updVars, proxyVars, frontVars, notPidExtra>>

\* An inode number no file has had yet.
FreshInode == CHOOSE i \in Inodes : i > pidPath /\ \A q \in DProcs : i > pfd[q]

\* serve starts and Create opens the path: os.OpenFile(path,
\* O_WRONLY|O_CREATE|O_TRUNC), which makes the file when the path names none.
\* A failure is returned, and the process exits with status 1.
Create_OpenFile(p, ok) ==
    /\ ppc[p] = "off"
    /\ nStarts < MaxStarts
    /\ nStarts' = nStarts + 1
    /\ IF ok
       THEN /\ pidPath' = IF pidPath = 0 THEN FreshInode ELSE pidPath
            /\ pfd' = [pfd EXCEPT ![p] = pidPath']
            /\ ppc' = [ppc EXCEPT ![p] = "opened"]
       ELSE UNCHANGED <<pidPath, pfd, ppc>>
    /\ UNCHANGED flock
    /\ UNCHANGED pidFrame

\* Create: syscall.Flock(fd, LOCK_EX|LOCK_NB); when another process holds the
\* inode's lock the file is closed and the process exits with status 1.
Create_Flock(p) ==
    /\ ppc[p] = "opened"
    /\ IF flock[pfd[p]] = 0
       THEN /\ flock' = [flock EXCEPT ![pfd[p]] = p]
            /\ ppc' = [ppc EXCEPT ![p] = "locked"]
            /\ UNCHANGED pfd
       ELSE /\ ppc' = [ppc EXCEPT ![p] = "off"]
            /\ pfd' = [pfd EXCEPT ![p] = 0]
            /\ UNCHANGED flock
    /\ UNCHANGED <<pidPath, nStarts>>
    /\ UNCHANGED pidFrame

\* Create: f.WriteString(pid) and the return to serve, which goes on to start
\* the HTTP server; a failed write unlocks, closes and exits with status 1.
Create_WritePid(p, ok) ==
    /\ ppc[p] = "locked"
    /\ IF ok
       THEN /\ ppc' = [ppc EXCEPT ![p] = "serving"]
            /\ UNCHANGED <<flock, pfd>>
       ELSE /\ ppc' = [ppc EXCEPT ![p] = "off"]
            /\ flock' = [flock EXCEPT ![pfd[p]] = 0]
            /\ pfd' = [pfd EXCEPT ![p] = 0]
    /\ UNCHANGED <<pidPath, nStarts>>
    /\ UNCHANGED pidFrame

\* serve returns (a signal, a self-update, a listen error) and the deferred
\* Close runs: syscall.Flock(fd, LOCK_UN).
Close_Unlock(p) ==
    /\ ppc[p] = "serving"
    /\ flock' = [flock EXCEPT ![pfd[p]] = 0]
    /\ ppc' = [ppc EXCEPT ![p] = "unlocked"]
    /\ UNCHANGED <<pidPath, pfd, nStarts>>
    /\ UNCHANGED pidFrame

\* Close: pf.file.Close().
Close_File(p) ==
    /\ ppc[p] = "unlocked"
    /\ pfd' = [pfd EXCEPT ![p] = 0]
    /\ ppc' = [ppc EXCEPT ![p] = "closed"]
    /\ UNCHANGED <<pidPath, flock, nStarts>>
    /\ UNCHANGED pidFrame

\* Close: os.Remove(pf.path), whatever file the path names by now; the
\* process exits.
Close_Remove(p) ==
    /\ ppc[p] = "closed"
    /\ pidPath' = 0
    /\ ppc' = [ppc EXCEPT ![p] = "off"]
    /\ UNCHANGED <<flock, pfd, nStarts>>
    /\ UNCHANGED pidFrame

\* The process is killed while serving: the kernel closes its descriptor,
\* which drops the lock; the file stays.
Daemon_Killed(p) ==
    /\ ppc[p] = "serving"
    /\ flock' = [flock EXCEPT ![pfd[p]] = 0]
    /\ pfd' = [pfd EXCEPT ![p] = 0]
    /\ ppc' = [ppc EXCEPT ![p] = "off"]
    /\ UNCHANGED <<pidPath, nStarts>>
    /\ UNCHANGED pidFrame

NextPid ==
    \/ \E p \in DProcs, ok \in BOOLEAN : Create_OpenFile(p, ok)
    \/ \E p \in DProcs : Create_Flock(p)
    \/ \E p \in DProcs, ok \in BOOLEAN : Create_WritePid(p, ok)
    \/ \E p \in DProcs : Close_Unlock(p)
    \/ \E p \in DProcs : Close_File(p)
    \/ \E p \in DProcs : Close_Remove(p)
    \/ \E p \in DProcs : Daemon_Killed(p)

(***************************************************************************)
(* The log hub (server/health.go) and its WebSocket subscribers            *)
(* (server/ws_logs.go).  Log records are numbered in the order in which    *)
(* the logger broadcasts them.                                             *)
(***************************************************************************)

\* The capacities of LogClient.send and of LogHub.broadcast.
SendCap == 64
BroadcastCap == 256

\* The connections, the records broadcast, the records waiting in the hub's
\* channel, the latest record before which a connection registers or
\* leaves, and the messages the writePumps get to write.
LClients == {1, 2}
MaxMsgs == 258
MaxPending == 1
MaxLate == 1
MaxDrains == 2

InitHub ==
    /\ hclients = {}
    /\ hsend = [c \in LClients |-> <<>>]
    /\ hclosed = [c \in LClients |-> FALSE]
    /\ hqueue = <<>>
    /\ wpc = [c \in LClients |-> "none"]
    /\ pump = [c \in LClients |-> FALSE]
    /\ nMsgs = 0
    /\ nDrains = 0
    /\ lpc = "idle"
    /\ hstopped = FALSE

hubFrame == <<updVars, proxyVars, frontVars, notHubExtra>>

\* What the cases of Run leave alone but for the process: a close of, or a
\* send on, a closed channel panics, and the panic ends the process.
hubRunFrame == <<updVars, proxyVars, frontVars, siteVars, concVars, pidVars, monVars, pureVars>>
RunPanics(panics) == srv' = IF panics THEN [srv EXCEPT !.servePc = "panic"] ELSE srv

\* TeeHandler.Handle: the record goes to the primary handler, is serialised
\* and handed to Broadcast.  While the hub runs the logger is explored at
\* most MaxPending records ahead of it.
Handle ==
    /\ lpc = "idle"
    /\ nMsgs < MaxMsgs
    /\ hstopped \/ Len(hqueue) < MaxPending
    /\ nMsgs' = nMsgs + 1
    /\ lpc' = "broadcast"
    /\ UNCHANGED <<hclients, hsend, hclosed, hqueue, wpc, pump, nDrains, hstopped>>
    /\ UNCHANGED hubFrame

\* Whether the caller of Broadcast has to wait for room in h.broadcast: the
\* select has a default case.
BroadcastWaits_NoDefault(q) == Len(q) >= BroadcastCap
BroadcastWaits(q) == FALSE

\* Broadcast: the record is queued for the hub, or dropped when the hub's
\* channel is full.
Broadcast ==
    /\ lpc = "broadcast"
    /\ ~BroadcastWaits(hqueue)
    /\ lpc' = "idle"
    /\ hqueue' = IF Len(hqueue) < BroadcastCap THEN Append(hqueue, nMsgs) ELSE hqueue
    /\ UNCHANGED <<hclients, hsend, hclosed, wpc, pump, nMsgs, nDrains, hstopped>>
    /\ UNCHANGED hubFrame

\* WSLogs: the client with its channel, `s.logHub.register <- client` and the
\* hub's `h.clients[client] = struct{}{}`; the writePump starts.
WSLogs_Register(c) ==
    /\ ~hstopped
    /\ wpc[c] = "none"
    /\ nMsgs <= MaxLate
    /\ hclients' = hclients \cup {c}
    /\ wpc' = [wpc EXCEPT ![c] = "open"]
    /\ pump' = [pump EXCEPT ![c] = TRUE]
    /\ UNCHANGED <<hsend, hclosed, hqueue, nMsgs, nDrains, lpc, hstopped>>
    /\ UNCHANGED hubFrame

\* `case client.send <- msg` is ready exactly when the channel has room.
CanSend_Unbounded(ch) == TRUE
CanSend(ch) == Len(ch) < SendCap

\* Run, `case msg := <-h.broadcast`: every client gets the message, or is
\* deleted and its channel closed when the send would block.
Run_Broadcast ==
    /\ ~hstopped /\ srv.servePc # "panic"
    /\ hqueue # <<>>
    /\ RunPanics(\E c \in hclients : hclosed[c])
    /\ hqueue' = Tail(hqueue)
    /\ hsend' = [c \in LClients |->
                    IF c \in hclients /\ CanSend(hsend[c])
                    THEN Append(hsend[c], Head(hqueue)) ELSE hsend[c]]
    /\ hclients' = {c \in hclients : CanSend(hsend[c])}
    /\ hclosed' = [c \in LClients |-> hclosed[c] \/ (c \in hclients /\ ~CanSend(hsend[c]))]
    /\ UNCHANGED <<wpc, pump, nMsgs, nDrains, lpc, hstopped>>
    /\ UNCHANGED hubRunFrame

\* writePump: `for msg := range client.send` receives the next message and
\* c.WriteMessage sends it; a failed write ends the pump.
Pump_Receive(c, ok) ==
    /\ pump[c]
    /\ hsend[c] # <<>>
    /\ nDrains < MaxDrains
    /\ nDrains' = nDrains + 1
    /\ hsend' = [hsend EXCEPT ![c] = Tail(@)]
    /\ pump' = [pump EXCEPT ![c] = ok]
    /\ UNCHANGED <<hclients, hclosed, hqueue, wpc, nMsgs, lpc, hstopped>>
    /\ UNCHANGED hubFrame

\* writePump: the range ends on a closed and empty channel.
Pump_Exit(c) ==
    /\ pump[c]
    /\ hclosed[c]
    /\ hsend[c] = <<>>
    /\ pump' = [pump EXCEPT ![c] = FALSE]
    /\ UNCHANGED <<hclients, hsend, hclosed, hqueue, wpc, nMsgs, nDrains, lpc, hstopped>>
    /\ UNCHANGED hubFrame

\* Run, `case client := <-h.unregister`: whether close(client.send) is
\* called, which is the test `_, ok := h.clients[client]`.
ClosesOnUnregister_Always(c) == TRUE
ClosesOnUnregister(c) == c \in hclients

\* WSLogs: c.ReadMessage fails (the peer left, or the pump closed the
\* connection), the handler hands the client over on h.unregister and
\* returns; Run, `case client := <-h.unregister`: a client still in the set
\* is deleted and its channel closed.  A close of a closed channel panics.
Run_Unregister(c) ==
    /\ ~hstopped /\ srv.servePc # "panic"
    /\ wpc[c] = "open"
    /\ nMsgs <= MaxLate
    /\ wpc' = [wpc EXCEPT ![c] = "done"]
    /\ hclients' = hclients \ {c}
    /\ hclosed' = [hclosed EXCEPT ![c] = @ \/ ClosesOnUnregister(c)]
    /\ RunPanics(ClosesOnUnregister(c) /\ hclosed[c])
    /\ UNCHANGED <<hsend, hqueue, pump, nMsgs, nDrains, lpc, hstopped>>
    /\ UNCHANGED hubRunFrame

\* Stop closes h.stop; Run, `case <-h.stop`: every client's channel is
\* closed, the set is emptied and the loop returns.
Run_Stop ==
    /\ ~hstopped /\ srv.servePc # "panic"
    /\ nMsgs <= MaxLate
    /\ hstopped' = TRUE
    /\ RunPanics(\E c \in hclients : hclosed[c])
    /\ hclosed' = [c \in LClients |-> hclosed[c] \/ c \in hclients]
    /\ hclients' = {}
    /\ UNCHANGED <<hsend, hqueue, wpc, pump, nMsgs, nDrains, lpc>>
    /\ UNCHANGED hubRunFrame

NextHub ==
    \/ Handle
    \/ Broadcast
    \/ Run_Broadcast
    \/ \E c \in LClients : WSLogs_Register(c)
    \/ \E c \in LClients, ok \in BOOLEAN : Pump_Receive(c, ok)
    \/ \E c \in LClients : Pump_Exit(c)
    \/ \E c \in LClients : Run_Unregister(c)
    \/ Run_Stop

(***************************************************************************)
(* The health monitor's counters.  Every site of this section's registry   *)
(* has a backend; a tick probes each of them.                              *)
(***************************************************************************)

\* The configured thresholds (0: failure_threshold is not set) and the ticks
\* of one behaviour.
Thresholds == 0 .. 3
MaxTicks == 5

NoStatus == [known |-> FALSE, failures |-> 0, healthy |-> FALSE]

InitMonitor ==
    /\ threshold \in Thresholds
    /\ svcStatus = [s \in Sites |-> NoStatus]
    /\ probes = [s \in Sites |-> <<>>]

IdleMonitor ==
    /\ threshold = 3
    /\ svcStatus = [s \in Sites |-> NoStatus]
    /\ probes = [s \in Sites |-> <<>>]

\* Whether a failed probe that brings the counter to n restarts the service.
ThresholdReached(n) == n >= threshold

\* The loop body of checkAllServices for one site: the status after the
\* probe, and whether svcMgr.Restart was called.
CheckOne(status, healthy) ==
    IF ~status.known
    THEN [status |-> [known |-> TRUE, failures |-> 0, healthy |-> healthy],
          restart |-> FALSE]
    ELSE IF healthy
    THEN [status |-> [status EXCEPT !.failures = 0, !.healthy = TRUE],
          restart |-> FALSE]
    ELSE IF ThresholdReached(status.failures + 1)
    THEN [status |-> [status EXCEPT !.failures = 0, !.healthy = FALSE],
          restart |-> TRUE]
    ELSE [status |-> [status EXCEPT !.failures = @ + 1, !.healthy = FALSE],
          restart |-> FALSE]

\* One tick: checkAllServices probes every backend site.
Monitor_checkAll(healthy) ==
    /\ \A s \in Sites : Len(probes[s]) < MaxTicks
    /\ svcStatus' = [s \in Sites |-> CheckOne(svcStatus[s], healthy[s]).status]
    /\ probes' = [s \in Sites |->
                     Append(probes[s], [healthy |-> healthy[s],
                                        restart |-> CheckOne(svcStatus[s], healthy[s]).restart])]
    /\ UNCHANGED threshold
    /\ UNCHANGED <<updVars, proxyVars, frontVars, siteVars, concVars, pidVars, hubVars, pureVars, srvVars>>

NextMonitor == \E healthy \in [Sites -> BOOLEAN] : Monitor_checkAll(healthy)

(***************************************************************************)
(* SiteAuth, the middleware of the routes deploy/frontend and              *)
(* deploy/backend.                                                         *)
(***************************************************************************)

\* The configuration's keys, and the requests that reach the middleware: the
\* route, whether the multipart form parses, its `site` field ("" when there
\* is none) and the X-Shipyard-Key header ("" when there is none).
APIKey == [s \in Sites |-> IF s = FrontSite THEN "sk-site-a" ELSE "sk-site-b"]
AdminKeys == {"sk-admin-1", "sk-admin-2"}
AuthRoutes == {"deploy/frontend", "deploy/backend"}
AuthSites == Sites \cup {"", "c.example.com"}
AuthKeys == {"", "sk-site-a", "sk-site-b", "sk-admin-1", "sk-admin-2", "sk-site-", "SK-SITE-A"}
AuthInputs ==
    [route : AuthRoutes, form : BOOLEAN, site : AuthSites, key : AuthKeys]

\* The two comparisons of the header with the site's key and the admin keys.
KeyAccepted_AnySiteKey(site, key) ==
    (\E s \in Sites : key = APIKey[s]) \/ key \in AdminKeys
KeyAccepted(site, key) ==
    key = APIKey[site] \/ key \in AdminKeys

\* What the middleware answers, or that it calls c.Next().
SiteAuthResult(req) ==
    IF ~req.form THEN [next |-> FALSE, status |-> 400, error |-> "invalid_request"]
    ELSE IF req.site = "" THEN [next |-> FALSE, status |-> 400, error |-> "missing_site"]
    ELSE IF req.site \notin cfgSite
    THEN [next |-> FALSE, status |-> 404, error |-> "site_not_found"]
    ELSE IF req.key = "" THEN [next |-> FALSE, status |-> 401, error |-> "missing_auth"]
    ELSE IF KeyAccepted(req.site, req.key)
    THEN [next |-> TRUE, status |-> 0, error |-> ""]
    ELSE [next |-> FALSE, status |-> 401, error |-> "invalid_key"]

purFrame == <<updVars, proxyVars, frontVars, siteVars, concVars, pidVars, hubVars, monVars, srvVars>>

\* A request on a site-scoped route passes through the middleware.
SiteAuth ==
    /\ res = <<>>
    /\ res' = <<SiteAuthResult(arg)>>
    /\ UNCHANGED arg
    /\ UNCHANGED purFrame

(***************************************************************************)
(* The commit check of DeployFrontend and DeployBackend.                   *)
(***************************************************************************)

\* The commit ids sent: n times `a` for every length up to MaxCommitLen, the
\* same with one character replaced, and variants of `latest`.
MaxCommitLen == 42
OddChars == {"0", "9", "f", "g", "A", "F", "-", ".", "/", " "}
Repeat(n, ch) == [i \in 1 .. n |-> ch]
CommitStrings ==
    {Repeat(n, "a") : n \in 0 .. MaxCommitLen}
    \cup UNION {{[Repeat(n, "a") EXCEPT ![i] = ch] : i \in 1 .. n, ch \in OddChars} :
                   n \in 1 .. MaxCommitLen}
    \cup {CommitChars["latest"], CommitChars["HEAD"],
          <<"L", "a", "t", "e", "s", "t">>, Append(CommitChars["latest"], " "),
          <<"l", "a", "t", "e", "s">>}
CommitCheckInputs == [route : AuthRoutes, commit : CommitStrings]

\* What the handler does with the commit field: 400 invalid_commit_hash, or
\* it goes on to the artifact (status 0: no answer yet).
CommitCheckAnswer(commit) ==
    IF ~isValidCommitHash(commit)
    THEN [status |-> 400, error |-> "invalid_commit_hash"]
    ELSE [status |-> 0, error |-> ""]

\* DeployFrontend / DeployBackend for a site that passed the checks before the
\* commit check: the check and, on a bad id, the return.
Deploy_CommitCheck ==
    /\ res = <<>>
    /\ res' = <<CommitCheckAnswer(arg.commit)>>
    /\ UNCHANGED arg
    /\ UNCHANGED purFrame

(***************************************************************************)
(* Names derived from a site name: jail/manager.go and service/rcd.go.     *)
(***************************************************************************)

\* The site names: every string of up to MaxDomainLen of these characters.
MaxDomainLen == 4
DomainChars == {"a", "1", ".", "-", "_"}
DomainInputs == UNION {[1 .. n -> DomainChars] : n \in 0 .. MaxDomainLen}

\* strings.ReplaceAll(s, old, new) for one-character old and new.
ReplaceAll(s, old, new) == [i \in DOMAIN s |-> IF s[i] = old THEN new ELSE s[i]]

\* potName of package jail.
jail_potName(siteName) == ReplaceAll(siteName, ".", "-")

\* potName of package service.
service_potName(siteName) == ReplaceAll(siteName, ".", "-")

\* A serviceName that leaves the hyphens.
serviceName_DotsOnly(siteName) == ReplaceAll(siteName, ".", "_")

\* serviceName of package service.
serviceName(siteName) ==
    LET name == ReplaceAll(siteName, ".", "_") IN ReplaceAll(name, "-", "_")

\* Both adapters derive their names from one site name.
DeriveNames ==
    /\ res = <<>>
    /\ res' = <<[jailPot |-> jail_potName(arg), servicePot |-> service_potName(arg),
                 service |-> serviceName(arg)]>>
    /\ UNCHANGED arg
    /\ UNCHANGED purFrame

\* validDomain of package server: ^[a-z0-9][a-z0-9\.\-]*[a-z0-9]$.
AlNum == {"a", "1"}
validDomain(s) ==
    /\ Len(s) >= 2
    /\ s[1] \in AlNum /\ s[Len(s)] \in AlNum
    /\ \A i \in 1 .. Len(s) : s[i] \in AlNum \cup {".", "-"}

\* Two domains sent to site/create, each of up to MaxPairLen characters.
MaxPairLen == 3
PairChars == {"a", ".", "-", "_"}
PairStrings == UNION {[1 .. n -> PairChars] : n \in 0 .. MaxPairLen}
PairInputs == {p \in PairStrings \X PairStrings : p[1] # p[2]}

\* SiteCreate's domain check on both, and the names the jail and the service
\* adapter derive for each.
DerivePairNames ==
    /\ res = <<>>
    /\ res' = <<[accepted |-> validDomain(arg[1]) /\ validDomain(arg[2]),
                 pots |-> <<jail_potName(arg[1]), jail_potName(arg[2])>>,
                 services |-> <<serviceName(arg[1]), serviceName(arg[2])>>]>>
    /\ UNCHANGED arg
    /\ UNCHANGED purFrame

(***************************************************************************)
(* The registry's allocator of container addresses: Config.NextJailIP,     *)
(* called by SiteCreate for a site with a backend, and the AddSite and     *)
(* RemoveSite that change the addresses in use.                            *)
(***************************************************************************)

\* The highest last octet handed out in one behaviour.
MaxLastOctet == 256

\* SiteCreate's registry part: the site record, with Backend.JailIP =
\* NextJailIP() when with_backend, and AddSite with its save.
Registry_AddSite(d, backend, outcome) ==
    /\ d \notin cfgSite
    /\ NextJailIP(jailIP) <= MaxLastOctet
    /\ cfgSite' = cfgSite \cup {d}
    /\ jailIP' = [jailIP EXCEPT ![d] = IF backend THEN NextJailIP(jailIP) ELSE 0]
    /\ diskSite' = SaveFile(cfgSite', outcome)
    /\ UNCHANGED <<mu, sslSite, cpc, cop, mpc, nReq, certs, spc, sop, sret>>
    /\ UNCHANGED concFrame

\* SiteDestroy's registry part: RemoveSite with its save.
Registry_RemoveSite(d, outcome) ==
    /\ d \in cfgSite
    /\ cfgSite' = cfgSite \ {d}
    /\ jailIP' = [jailIP EXCEPT ![d] = 0]
    /\ diskSite' = SaveFile(cfgSite', outcome)
    /\ UNCHANGED <<mu, sslSite, cpc, cop, mpc, nReq, certs, spc, sop, sret>>
    /\ UNCHANGED concFrame

NextAlloc ==
    \/ \E d \in Sites, backend \in BOOLEAN, o \in SaveOutcomes : Registry_AddSite(d, backend, o)
    \/ \E d \in Sites, o \in SaveOutcomes : Registry_RemoveSite(d, o)

\* config.Load on the file the registry wrote: ReadFile, toml.Unmarshal and
\* Validate, which refuses a file without any site.  (The server, nginx and
\* jail settings and the admin keys are written back as they were loaded;
\* every site that SiteCreate adds has an api_key and a frontend_root or a
\* backend.)
Load(disk) ==
    IF ~disk.ok THEN [err |-> "parse config", sites |-> {}]
    ELSE IF disk.sites = {}
         THEN [err |-> "at least one site must be configured", sites |-> {}]
         ELSE [err |-> "nil", sites |-> disk.sites]

\* The daemon is started again and reads its config file.
Config_Load ==
    /\ res = <<>>
    /\ res' = <<Load(diskSite)>>
    /\ UNCHANGED arg
    /\ UNCHANGED purFrame

\* site/create and site/destroy requests up to the restart.
Running_AddSite(d, backend, o) == res = <<>> /\ Registry_AddSite(d, backend, o)
Running_RemoveSite(d, o) == res = <<>> /\ Registry_RemoveSite(d, o)

NextRestart ==
    \/ \E d \in Sites, backend \in BOOLEAN, o \in SaveOutcomes : Running_AddSite(d, backend, o)
    \/ \E d \in Sites, o \in SaveOutcomes : Running_RemoveSite(d, o)
    \/ Config_Load

(***************************************************************************)
(* Properties of the nginx manager                                         *)
(***************************************************************************)

\* The site's link in sites-enabled resolves to the config the call was given.
LinkRefersTo(site, conf) == enabled[site] /\ available[site] = conf

\* C1: whenever no call is in progress, every enabled/<site>.conf link names
\* an available/<site>.conf file whose content the validator accepts.
C1_EnabledAlwaysValid ==
    (npc = "idle")
        => \A s \in Sites :
              enabled[s] => (available[s].exists /\ available[s].body \in GoodBodies)

\* C2: when a deploy_site call has returned, either the link refers to the
\* new config and a reload was issued after the link was set, or the link is
\* as it was before the call and no reload was issued.
C2_DeployAllOrNothing ==
    (npc = "idle" /\ nret.kind = "deploy_site")
        => \/ /\ LinkRefersTo(nret.site, nret.conf)
              /\ nret.reloadIssued /\ nret.reloadSawNew
           \/ /\ enabled[nret.site] = nret.enabled0
              /\ ~nret.reloadIssued

\* C3: when the validator rejected the tree during deploy_site, the call
\* returned (false, the validator's message, nil), the link is as it was
\* before the call, and no reload was issued.
C3_RejectedLeavesLink ==
    (npc = "idle" /\ nret.kind = "deploy_site" /\ nret.rejected)
        => /\ nret.reloaded = FALSE
           /\ nret.msg = ValidatorOutput
           /\ nret.err = "nil"
           /\ enabled[nret.site] = nret.enabled0
           /\ ~nret.reloadIssued

\* A deploy_site call on an enabled site has returned after the validator
\* rejected its config.
C3_Witness ==
    /\ npc = "idle" /\ nret.kind = "deploy_site" /\ nret.rejected
    /\ nret.enabled0 /\ nret.conf.body = "bad"
    /\ nret.avail0.body = "good1"

(***************************************************************************)
(* Properties of the frontend deployer                                     *)
(***************************************************************************)

Latest == NodeAt(fs, LatestPath.parts)

\* C4: in a frontend deploy with update_latest, the rename that swaps
\* `latest` happens only after extractZip has extracted every entry, and
\* `nginx -s reload` runs only after the swap, with `latest` at the new target.
C4_ExtractSwapReload ==
    [][ /\ (NodeAt(fs', LatestPath.parts) # Latest /\ NodeAt(fs', LatestPath.parts).t = "link")
           => (fop.ul /\ fop.extracted /\ fpc = "ul_rename")
        /\ (npc = "ds_reload" /\ npc' # "ds_reload" /\ nop.caller = "frontend" /\ fop.ul)
           => (fop.extracted /\ fop.swapped /\ Latest = NodeLink(fop.target)) ]_vars

C4_Witness ==
    /\ fpc = "idle" /\ fret.status = 200
    /\ fop.ul /\ fop.extracted /\ fop.swapped
    /\ nret.caller = "frontend" /\ nret.reloadIssued

\* The zip has an index.html at its root or in a build directory.
HasIndex(zip) ==
    \E i \in 1..Len(zip) :
        /\ ~zip[i].dir
        /\ \/ zip[i].name = Path(FALSE, <<"index.html">>)
           \/ \E j \in 1..Len(BuildDirs) :
                 zip[i].name = Path(FALSE, <<BuildDirs[j], "index.html">>)

\* C5: for every accepted commit id and every zip with an index.html at its
\* root or in dist/build/out/public, once updateLatestSymlink has returned nil
\* `latest` is a symlink whose target, one hop away, is an existing directory
\* that contains index.html.
C5_LatestServesIndex ==
    (fop.swapped /\ fpc = "nginx_call" /\ HasIndex(fop.zip))
    => /\ Latest.t = "link"
       /\ LET target == FrontendRoot.parts \o Latest.to IN
          /\ NodeAt(fs, target).t = "dir"
          /\ NodeAt(fs, Append(target, "index.html")).t = "file"

\* The depth below the start that a relative name reaches, or -1 once it has
\* climbed above the start.
RECURSIVE Climbs(_, _)
Climbs(parts, depth) ==
    IF depth < 0 THEN TRUE
    ELSE IF parts = <<>> THEN FALSE
    ELSE IF Head(parts) = ".." THEN Climbs(Tail(parts), depth - 1)
    ELSE IF Head(parts) \in {".", ""} THEN Climbs(Tail(parts), depth)
    ELSE Climbs(Tail(parts), depth + 1)

\* The entry names a place outside the directory it is extracted into.
Escapes(e) == e.name.abs \/ Climbs(e.name.parts, 0)
HasEscape(zip) == \E i \in 1..Len(zip) : Escapes(zip[i])
FirstEscape(zip) == CHOOSE i \in 1..Len(zip) : Escapes(zip[i]) /\ \A j \in 1..(i - 1) : ~Escapes(zip[j])

\* extractZip of the frontend call has returned.
ExtractReturned == fop.extracted \/ (fpc = "idle" /\ fop.stage = "extract")

\* The directory the commit directory of the call resolves to.
RealCommitDir == Stat(fs, CommitDir(fop.commit)).path

\* Compared with the start of the call, every node created, changed or
\* removed is below the commit directory.
NothingOutside ==
    \A p \in (DOMAIN fs \cup DOMAIN fop.fs0) :
        NodeAt(fs, p) # NodeAt(fop.fs0, p) => IsPrefix(RealCommitDir, p)

ErrBeforeEscape ==
    LET dir == CommitDir(fop.commit)
        before == SubSeq(fop.zip, 1, FirstEscape(fop.zip) - 1)
    IN extractZip(MkdirAll(fop.fs0, dir).fs, before, dir, fop.commit).err

C7_OnlyOwnCommitDir ==
    isValidCommitHash(CommitChars[fop.commit])
    => \A p \in (DOMAIN fs \cup DOMAIN fop.fs0) :
          NodeAt(fs, p) # NodeAt(fop.fs0, p)
          => \/ IsPrefix(CommitDir(fop.commit).parts, p)
             \/ fop.ul /\ p \in {LatestPath.parts, TmpPath.parts}

\* C8: when `latest` is a symlink as the deploy begins, then at every step
\* of the deploy and after every failure `latest` is a symlink, at its
\* previous target or, once renamed, at the new one.
C8_LatestNeverAbsent ==
    fop.latest0.t = "link"
    => /\ Latest.t = "link"
       /\ \/ Latest.to = fop.latest0.to
          \/ fop.swapped /\ Latest.to = fop.target

C8_Witness ==
    /\ fpc = "ul_rename"
    /\ fop.latest0.t = "link"
    /\ fop.target # fop.latest0.to
    /\ NodeAt(fs, TmpPath.parts) = NodeLink(fop.target)
    /\ Latest = fop.latest0

(***************************************************************************)
(* Properties of the self-updater                                          *)
(***************************************************************************)

LastCall == uhist[Len(uhist)]

\* C9: once a first update has completed, P exists and is executable in
\* every intermediate state of a later update or rollback.
C9_PNeverMissing ==
    (updated /\ upc # "idle") => (P.exists /\ P.exec)

\* C10: a successful update leaves P with the uploaded bytes and P.old with
\* the pre-update bytes; a successful rollback directly after it leaves P
\* with the pre-update bytes and neither P.old nor P.new.
C10_UpdateThenRollback ==
    /\ (upc = "idle" /\ Len(uhist) >= 1 /\ LastCall.kind = "update" /\ LastCall.ok)
          => /\ P.exists /\ P.bytes = LastCall.bin
             /\ Pold.exists /\ Pold.bytes = LastCall.pre.bytes
    /\ (upc = "idle" /\ Len(uhist) = 2
           /\ uhist[1].kind = "update" /\ uhist[1].ok
           /\ uhist[2].kind = "rollback" /\ uhist[2].ok)
          => /\ P.exists /\ P.bytes = uhist[1].pre.bytes
             /\ ~Pold.exists /\ ~Pnew.exists

\* A rollback has just undone a successful update of P (from v1 to v2, after
\* an earlier update, so that P.old existed when that update began).
C10_Witness ==
    /\ upc = "idle" /\ Len(uhist) = 2
    /\ uhist[1].kind = "update" /\ uhist[1].ok
    /\ uhist[2].kind = "rollback" /\ uhist[2].ok
    /\ uhist[1].pre.bytes = "v1" /\ uhist[1].bin = "v2"
    /\ P.bytes = "v1"

\* C11: when the `version` run of the uploaded binary exits non-zero or
\* times out, Update returns an error (deploy/self answers 500), P.new is
\* gone, P is unchanged, and P.old is what it was before the call: absent,
\* or the same file.
C11_FailedValidationCleansUp ==
    (upc = "idle" /\ Len(uhist) >= 1 /\ LastCall.kind = "update"
        /\ uret = "validate binary" /\ RunVersion(LastCall.bin) \in {"nonzero", "timeout"})
    => /\ ~LastCall.ok /\ DeploySelfStatus(uret) = 500
       /\ ~Pnew.exists
       /\ P = LastCall.pre
       /\ Pold = LastCall.preOld

\* An upload that hangs on `version` has been rejected while P.old from an
\* earlier update existed.
C11_Witness ==
    /\ upc = "idle" /\ Len(uhist) >= 1 /\ LastCall.kind = "update"
    /\ uret = "validate binary" /\ LastCall.bin = "hang"
    /\ LastCall.preOld.exists /\ Pold = LastCall.preOld
    /\ ~Pnew.exists

\* C12: after every completed step of an update or a rollback, at most one
\* of P.new and P.old exists.
C12_AtMostOneOfNewOld ==
    ~(Pnew.exists /\ Pold.exists)

(***************************************************************************)
(* Properties of the site handlers                                         *)
(***************************************************************************)

\* C13: in site/create with ssl_enabled the registry write comes after the
\* HTTP-only deploy and the certificate issuance have both succeeded: a
\* failed HTTP-only deploy leaves the registry unchanged, and when the site is
\* written into the registry its certificate and key exist.
C13_RegistryAfterCert ==
    /\ [](  (spc = "idle" /\ sop.kind = "create" /\ sop.httpOnly = "failed")
            => (cfgSite = sop.cfg0 /\ diskSite = sop.disk0))
    /\ [][ (sop.kind = "create" /\ sop.ssl /\ spc = "sc_add" /\ cfgSite' # cfgSite)
           => (sop.httpOnly = "ok" /\ sop.acme = "ok" /\ sop.domain \in certs) ]_vars

C13_Witness ==
    /\ spc = "idle" /\ sop.kind = "create" /\ sop.ssl
    /\ sret.status = 201
    /\ sop.domain \in cfgSite /\ sop.certAtAdd /\ sop.domain \in certs

C17_MemoryEqualsDisk ==
    sop.regReturned => diskSite = DiskOf(cfgSite)

(***************************************************************************)
(* Properties of concurrent requests                                       *)
(***************************************************************************)

\* C15: no two sites of the registry have the same container IP, after any
\* interleaving of site/create and site/destroy requests.
C15_UniqueContainerIP ==
    \A s \in cfgSite, t \in cfgSite :
        (s # t /\ jailIP[s] # 0) => jailIP[s] # jailIP[t]

\* The positions at which a goroutine reads, and writes, the site map.
ReadPcs == {"sc_lookup", "ip_read", "ds_lookup", "rs_lookup", "sd_lookup",
            "si_lookup", "df_lookup"}
WritePcs == {"add_write", "rm_write", "si_disable", "si_enable"}

\* C16: no goroutine writes the site map while another goroutine, a handler or
\* the health monitor, reads or writes it.
C16_NoConcurrentMapWrite ==
    \A p \in Procs :
        cpc[p] \in WritePcs =>
            /\ mpc # "hm_range"
            /\ \A q \in Procs \ {p} : cpc[q] \notin ReadPcs \cup WritePcs

\* The positions between the first and the last mutation of the paths of a
\* manager call, a promotion of `latest` and a self-update.
MidPcs == {"ds_mid", "rs_mid", "ul_mid", "up_mid"}

\* C18: at most one request is between the first and the last mutation of
\* the site configs, of `latest` and of the binary's paths.
C18_FsStepsExclusive ==
    Cardinality({p \in Procs : cpc[p] \in MidPcs}) <= 1

\* C25: when a site/init request that ran alone has returned, on any path,
\* the site's SSLEnabled flag in the registry is what it was when the request
\* read the site.
C25_InitRestoresSSLFlag ==
    \A p \in Procs :
        (nReq = 1 /\ cpc[p] = "idle" /\ cop[p].kind = "init") =>
            (cop[p].domain \in sslSite <=> cop[p].ssl0)

(***************************************************************************)
(* Properties of the PID file                                              *)
(***************************************************************************)

\* C19: at most one daemon process has returned from pidfile.Create and has
\* not yet begun Close, let alone finished it.
C19_SingleInstance ==
    Cardinality({p \in DProcs : ppc[p] = "serving"}) <= 1

(***************************************************************************)
(* Properties of the log hub                                               *)
(***************************************************************************)

\* C20: a subscriber's channel never holds more than 64 messages; when the hub
\* processes a broadcast, every subscriber whose channel is full is removed
\* from the set and its channel closed with nothing added, and every other
\* registered subscriber receives the message and stays registered; a closed
\* channel stays closed, out of the set, and is sent nothing more.
C20_SlowSubscriberEvicted ==
    /\ [](\A c \in LClients : Len(hsend[c]) <= 64)
    /\ [][ (hqueue # <<>> /\ hqueue' = Tail(hqueue)) =>
             \A c \in hclients :
                IF Len(hsend[c]) = 64
                THEN c \notin hclients' /\ hclosed'[c] /\ hsend'[c] = hsend[c]
                ELSE /\ c \in hclients' /\ ~hclosed'[c]
                     /\ hsend'[c] = Append(hsend[c], Head(hqueue)) ]_vars
    /\ [][ \A c \in LClients :
               hclosed[c] => /\ hclosed'[c] /\ c \notin hclients'
                             /\ \/ hsend'[c] = hsend[c]
                                \/ hsend[c] # <<>> /\ hsend'[c] = Tail(hsend[c]) ]_vars

\* A subscriber was dropped with 64 messages in its channel, and the other
\* one has received the message that dropped it and a later one.
C20_Witness ==
    /\ wpc[1] = "open" /\ hclosed[1] /\ Len(hsend[1]) = 64
    /\ 2 \in hclients /\ hsend[2] # <<>>
    /\ hsend[2][Len(hsend[2])] > hsend[1][64] + 1

\* C21: a goroutine inside Broadcast can always finish the call, whatever
\* the subscribers and the hub do; a call that finds 256 records queued
\* leaves the queue as it is, and any other call appends its record.
C21_BroadcastNeverBlocks ==
    /\ [](lpc = "broadcast" => ENABLED Broadcast)
    /\ [][ (lpc = "broadcast" /\ lpc' = "idle") =>
             hqueue' = IF Len(hqueue) = 256 THEN hqueue ELSE Append(hqueue, nMsgs) ]_vars

\* The hub has stopped, the queue is full, and a later record was dropped
\* by a call that returned.
C21_Witness ==
    /\ hstopped /\ lpc = "idle" /\ Len(hqueue) = 256
    /\ hqueue[256] < nMsgs

(***************************************************************************)
(* Properties of the health monitor                                        *)
(***************************************************************************)

\* The failed probes in a row that end with probe i of h, counted from the
\* site's first probe, from the last successful probe or from the last restart.
RECURSIVE Streak(_, _)
Streak(h, i) ==
    IF i = 0 \/ h[i].healthy THEN 0
    ELSE IF i > 1 /\ h[i - 1].restart THEN 1
    ELSE 1 + Streak(h, i - 1)

\* C22: with a threshold of at least one, a site's service is restarted on
\* exactly the ticks whose probe brings its run of failed probes to the
\* threshold, and its counter stays below the threshold between ticks and is 0
\* after a success or a restart.
C22_RestartAtThreshold ==
    threshold >= 1 =>
        \A s \in Sites :
            /\ \A i \in 1 .. Len(probes[s]) :
                  probes[s][i].restart <=> (Streak(probes[s], i) = threshold)
            /\ svcStatus[s].failures < threshold
            /\ (probes[s] # <<>> /\ ( \/ probes[s][Len(probes[s])].healthy
                                      \/ probes[s][Len(probes[s])].restart ))
                  => svcStatus[s].failures = 0

\* C23: with failure_threshold not set, no service is restarted before its
\* third failed probe in a row.
C23_DefaultThresholdThree ==
    threshold = 0 =>
        \A s \in Sites : \A i \in 1 .. Len(probes[s]) :
            probes[s][i].restart => Streak(probes[s], i) >= 3

(***************************************************************************)
(* Properties of the middleware                                            *)
(***************************************************************************)

\* C24: for a registered site, the handler runs exactly when the header is
\* the site's own key or an admin key; any other header, a missing one and
\* another site's key included, is answered 401; every admin key passes for
\* every site.
C24_SiteKeyOrAdminKey ==
    (res # <<>> /\ arg.form /\ arg.site \in cfgSite) =>
        LET own == IF arg.site = "a.example.com" THEN "sk-site-a" ELSE "sk-site-b"
            admin == arg.key \in {"sk-admin-1", "sk-admin-2"}
        IN  /\ res[1].next <=> (arg.key = own \/ admin)
            /\ ~res[1].next => res[1].status = 401

\* Site b's key was presented for site a and answered 401.
C24_Witness ==
    /\ res # <<>>
    /\ arg.form /\ arg.site = "a.example.com" /\ arg.key = "sk-site-b"
    /\ ~res[1].next /\ res[1].status = 401

(***************************************************************************)
(* The serve command and deploy/self: cmd/serve.go, server/handlers.go     *)
(***************************************************************************)

MaxSelf == 2

\* The serve command waits in its select; no deploy/self request yet.
InitServe ==
    srv = [shutdownChan |-> "open", servePc |-> "select", selfPc |-> "idle",
           selfRet |-> 0, timers |-> 0, nSelf |-> 0]
IdleServe == InitServe

\* The process runs: Serve has not returned and no goroutine has panicked.
ProcessRuns == srv.servePc \in {"select", "shutdown"}

srvFrame == <<proxyVars, frontVars, siteVars, concVars, pidVars, hubVars, monVars, pureVars>>

\* Server.DeploySelf with an empty body: 400 before the updater is called.
DeploySelf_EmptyBody ==
    /\ srv.servePc = "select" /\ srv.selfPc = "idle" /\ srv.nSelf < MaxSelf
    /\ srv' = [srv EXCEPT !.nSelf = @ + 1, !.selfRet = 400]
    /\ UNCHANGED <<updVars, srvFrame>>

\* Server.DeploySelf calls Updater.Update with the uploaded bytes.
DeploySelf_Update(b) ==
    /\ srv.servePc = "select" /\ srv.selfPc = "idle" /\ srv.nSelf < MaxSelf
    /\ upc = "idle"
    /\ srv' = [srv EXCEPT !.nSelf = @ + 1, !.selfPc = "update"]
    /\ upc' = "write"
    /\ uop' = [kind |-> "update", bin |-> b, pre |-> P, preOld |-> Pold]
    /\ UNCHANGED <<P, Pnew, Pold, uret, uhist, updated>>
    /\ UNCHANGED srvFrame

\* Server.DeploySelf after Update returned: 500 on an error; otherwise the
\* goroutine that sleeps 100 ms and calls TriggerShutdown is started and the
\* answer is 200 `restarting`.
DeploySelf_Answer ==
    /\ ProcessRuns
    /\ srv.selfPc = "update" /\ upc = "idle"
    /\ srv' = [srv EXCEPT !.selfPc = "idle",
                          !.selfRet = DeploySelfStatus(uret),
                          !.timers = IF uret = "ok" THEN @ + 1 ELSE @]
    /\ UNCHANGED <<updVars, srvFrame>>

\* Server.TriggerShutdown in a goroutine whose sleep is over:
\* close(s.shutdownChan).  Closing a closed channel panics, and a panic in a
\* goroutine that nothing recovers ends the process.
TriggerShutdown ==
    /\ ProcessRuns
    /\ srv.timers > 0
    /\ srv' = IF srv.shutdownChan = "open"
              THEN [srv EXCEPT !.timers = @ - 1, !.shutdownChan = "closed"]
              ELSE [srv EXCEPT !.timers = @ - 1, !.servePc = "panic"]
    /\ UNCHANGED <<updVars, srvFrame>>

\* cmd.Serve: the select receives from srv.ShutdownChan().
Serve_ShutdownChan ==
    /\ srv.servePc = "select" /\ srv.shutdownChan = "closed"
    /\ srv' = [srv EXCEPT !.servePc = "shutdown"]
    /\ UNCHANGED <<updVars, srvFrame>>

\* cmd.Serve: the select receives SIGINT or SIGTERM.
Serve_Signal ==
    /\ srv.servePc = "select"
    /\ srv' = [srv EXCEPT !.servePc = "shutdown"]
    /\ UNCHANGED <<updVars, srvFrame>>

\* cmd.Serve: srv.Shutdown() returns once the requests in flight are
\* answered; Serve returns nil, or the error of Shutdown.
Serve_Shutdown(ok) ==
    /\ srv.servePc = "shutdown" /\ srv.selfPc = "idle"
    /\ srv' = [srv EXCEPT !.servePc = IF ok THEN "returned" ELSE "shutdown_err"]
    /\ UNCHANGED <<updVars, srvFrame>>

\* The steps of Update inside the handler.
DeploySelf_UpdateStep ==
    /\ ProcessRuns
    /\ \/ \E o \in {"open_err", "copy_err", "sync_err", "ok"} : Update_writeNewBinary(o)
       \/ Update_validateBinary
       \/ atomicReplace_RemoveOld
       \/ \E e \in BOOLEAN : atomicReplace_Backup(e)
       \/ \E e \in BOOLEAN : atomicReplace_Install(e)
       \/ \E e \in BOOLEAN : atomicReplace_Restore(e)

NextSelf ==
    \/ DeploySelf_EmptyBody
    \/ \E b \in Binaries : DeploySelf_Update(b)
    \/ DeploySelf_UpdateStep
    \/ DeploySelf_Answer
    \/ TriggerShutdown
    \/ Serve_ShutdownChan
    \/ Serve_Signal
    \/ \E ok \in BOOLEAN : Serve_Shutdown(ok)

(***************************************************************************)
(* Specifications                                                          *)
(***************************************************************************)

\* The nginx manager and the frontend deployer at rest.
IdleProxy == InitProxy

IdleFrontend == InitFrontend
IdleSite == InitSite
IdleConc == InitConc
IdlePid == InitPid
IdleHub == InitHub
IdlePure == arg = "none" /\ res = <<>>
IdleLater == IdleMonitor /\ IdlePure /\ IdleServe
IdleExtra == IdleSite /\ IdleConc /\ IdlePid /\ IdleHub /\ IdleLater

InitUpdate == InitUpdater /\ IdleProxy /\ IdleFrontend /\ IdleExtra
SpecUpdate == InitUpdate /\ [][NextUpdater]_vars

InitProxyOnly == InitProxy /\ InitUpdater /\ IdleFrontend /\ IdleExtra
SpecProxy == InitProxyOnly /\ [][NextProxy]_vars

\* The frontend deployer on a registered site that has no config yet.
InitFrontendOnly ==
    /\ InitFrontend /\ InitUpdater /\ IdleExtra
    /\ cfgSite = {FrontSite}
    /\ available = [s \in Sites |-> NoConf]
    /\ enabled = [s \in Sites |-> FALSE]
    /\ overrideConf = {}
    /\ npc = "idle"
    /\ nop = NIdleOp
    /\ nret = NNoRet
SpecFrontend == InitFrontendOnly /\ [][NextFrontend]_vars

\* The commit directories updateLatestSymlink can find: for each build
\* directory whether it is missing, empty, or holds a file or a directory
\* named index.html; an index.html at the commit root or none; and `latest`
\* missing, a link to an older commit, or a real directory.
DetectCommit == "abc1234"
DetectShapes ==
    [root : BOOLEAN, latest : {"none", "link", "dir"},
     sub : [1 .. Len(BuildDirs) -> {"none", "empty", "file", "dir"}]]
DetectTree(shape) ==
    LET c == Append(FrontendRoot.parts, DetectCommit)
        subs == {j \in 1 .. Len(BuildDirs) : shape.sub[j] # "none"}
        idx == {j \in subs : shape.sub[j] # "empty"}
        dirs == {<<>>, FrontendRoot.parts, c} \cup {Append(c, BuildDirs[j]) : j \in subs}
                \cup {Append(Append(c, BuildDirs[j]), "index.html") :
                         j \in {k \in idx : shape.sub[k] = "dir"}}
                \cup (IF shape.latest = "dir" THEN {LatestPath.parts} ELSE {})
        files == {Append(Append(c, BuildDirs[j]), "index.html") :
                     j \in {k \in idx : shape.sub[k] = "file"}}
                 \cup (IF shape.root THEN {Append(c, "index.html")} ELSE {})
        links == IF shape.latest = "link" THEN {LatestPath.parts} ELSE {}
    IN [x \in dirs \cup files \cup links |->
           IF x \in files THEN NodeFile(DetectCommit)
           ELSE IF x \in links THEN NodeLink(<<"def5678">>)
           ELSE NodeDir]

\* Deploy has unpacked a commit and calls updateLatestSymlink.
InitPromoteOnly ==
    /\ \E shape \in DetectShapes : fs = DetectTree(shape)
    /\ fpc = "ul_rmtmp"
    /\ fop = [FIdleOp EXCEPT !.commit = DetectCommit, !.ul = TRUE, !.fs0 = fs,
                             !.latest0 = NodeAt(fs, LatestPath.parts),
                             !.extracted = TRUE, !.stage = "promote"]
    /\ fret = FNoRet
    /\ nDeploys = 1
    /\ InitUpdater /\ IdleExtra
    /\ cfgSite = {FrontSite}
    /\ available = [s \in Sites |-> NoConf]
    /\ enabled = [s \in Sites |-> FALSE]
    /\ overrideConf = {}
    /\ npc = "idle"
    /\ nop = NIdleOp
    /\ nret = NNoRet
NextPromote ==
    \/ updateLatestSymlink_RemoveTmp
    \/ \E ok \in BOOLEAN : updateLatestSymlink_Heal(ok)
    \/ \E ok \in BOOLEAN : updateLatestSymlink_Symlink(ok)
    \/ \E ok \in BOOLEAN : updateLatestSymlink_Rename(ok)
SpecPromote == InitPromoteOnly /\ [][NextPromote]_vars

\* The site handlers, one request at a time, on a registry with one site
\* that has no nginx config yet.
InitSiteOnly ==
    /\ InitSite /\ InitUpdater /\ InitFrontend /\ IdleConc /\ IdlePid /\ IdleHub /\ IdleLater
    /\ cfgSite = {FrontSite}
    /\ available = [s \in Sites |-> NoConf]
    /\ enabled = [s \in Sites |-> FALSE]
    /\ overrideConf = {}
    /\ npc = "idle"
    /\ nop = NIdleOp
    /\ nret = NNoRet
SpecSite == InitSiteOnly /\ [][NextSite]_vars

\* The daemon serving concurrent requests beside its health monitor.
SpecConc == InitSiteOnly /\ [][NextConc]_vars

\* The registry under a sequence of site/create and site/destroy.
SpecAlloc == InitSiteOnly /\ [][NextAlloc]_vars

\* Daemon processes started, stopped and killed on one PID file path.
InitPidOnly ==
    /\ InitPid /\ InitUpdater /\ IdleProxy /\ IdleFrontend /\ IdleSite /\ IdleConc /\ IdleHub
    /\ IdleLater
SpecPid == InitPidOnly /\ [][NextPid]_vars

\* The log hub, the logger and the WebSocket connections.
InitHubOnly ==
    /\ InitHub /\ InitUpdater /\ IdleProxy /\ IdleFrontend /\ IdleSite /\ IdleConc /\ IdlePid
    /\ IdleLater
SpecHub == InitHubOnly /\ [][NextHub]_vars

\* The health monitor, for each configured threshold, on two backend sites.
InitMonitorOnly ==
    /\ InitMonitor /\ InitUpdater /\ IdleProxy /\ IdleFrontend
    /\ IdleSite /\ IdleConc /\ IdlePid /\ IdleHub /\ IdlePure /\ IdleServe
SpecMonitor == InitMonitorOnly /\ [][NextMonitor]_vars

\* One request through SiteAuth, on a registry with both sites.
InitAuthOnly ==
    /\ arg \in AuthInputs /\ res = <<>>
    /\ InitUpdater /\ IdleFrontend /\ IdleSite /\ IdleConc /\ IdlePid /\ IdleHub /\ IdleMonitor /\ IdleServe
    /\ cfgSite = Sites
    /\ available = [s \in Sites |-> NoConf]
    /\ enabled = [s \in Sites |-> FALSE]
    /\ overrideConf = {}
    /\ npc = "idle"
    /\ nop = NIdleOp
    /\ nret = NNoRet
SpecAuth == InitAuthOnly /\ [][SiteAuth]_vars

\* One request at the commit check of a deploy handler.
InitCommitOnly ==
    /\ arg \in CommitCheckInputs /\ res = <<>>
    /\ InitUpdater /\ InitFrontend /\ IdleSite /\ IdleConc /\ IdlePid /\ IdleHub /\ IdleMonitor /\ IdleServe
    /\ cfgSite = Sites
    /\ available = [s \in Sites |-> NoConf]
    /\ enabled = [s \in Sites |-> FALSE]
    /\ overrideConf = {}
    /\ npc = "idle"
    /\ nop = NIdleOp
    /\ nret = NNoRet
SpecCommit == InitCommitOnly /\ [][Deploy_CommitCheck]_vars

\* One site name handed to the jail and the service adapter.
InitNamesOnly ==
    /\ arg \in DomainInputs /\ res = <<>>
    /\ InitUpdater /\ InitFrontend /\ IdleSite /\ IdleConc /\ IdlePid /\ IdleHub /\ IdleMonitor /\ IdleServe
    /\ cfgSite = Sites
    /\ available = [s \in Sites |-> NoConf]
    /\ enabled = [s \in Sites |-> FALSE]
    /\ overrideConf = {}
    /\ npc = "idle"
    /\ nop = NIdleOp
    /\ nret = NNoRet
SpecNames == InitNamesOnly /\ [][DeriveNames]_vars

(***************************************************************************)
(* Properties of DeployFrontend: repeated and partially deployed requests  *)
(***************************************************************************)

\* The request that just returned repeats the one before it, and Deploy
\* returned no error in either.
RepeatedDeploy ==
    /\ fpc = "idle" /\ fop.stage = "done" /\ fop.err = "nil"
    /\ fop.repeat

\* C26: when a deploy/frontend request repeats the one before it (same
\* commit, zip, nginx_config and update_latest) and both ran to the end, the
\* second leaves the disk as the first left it: the same tree under the
\* frontend root (commit directory, robots.txt, `latest`) and the same
\* available/ and enabled/ entries of the site.
C26_RepeatedDeploySameDisk ==
    RepeatedDeploy =>
        /\ fs = fop.fs0
        /\ available[FrontSite] = nret.avail0
        /\ enabled[FrontSite] = nret.enabled0

C26_Witness ==
    /\ RepeatedDeploy /\ fop.ul /\ fret.status = 200
    /\ Latest.t = "link" /\ enabled[FrontSite]

\* C27: when Deploy returns without error but the validator rejected the
\* configuration, DeployFrontend answers 422 partially_deployed with
\* commit_deployed true and nginx_reloaded false, the commit directory is
\* on disk, available/<site>.conf exists and the enabled/ entry of the site
\* is as it was before the request.
C27_PartiallyDeployed ==
    (fpc = "idle" /\ fop.stage = "done" /\ fop.err = "nil" /\ ~nret.reloaded) =>
        /\ fret.status = 422 /\ fret.state = "partially_deployed"
        /\ fret.commitDeployed /\ ~fret.reloaded
        /\ IsDirAt(fs, Stat(fs, CommitDir(fop.commit)))
        /\ available[FrontSite].exists
        /\ enabled[FrontSite] = nret.enabled0

C27_Witness ==
    /\ fpc = "idle" /\ fop.stage = "done" /\ fop.err = "nil" /\ ~nret.reloaded
    /\ fret.status = 422 /\ fop.ul /\ fop.swapped
    /\ IsDirAt(fs, Stat(fs, CommitDir(fop.commit)))

(***************************************************************************)
(* Properties of SiteCreate on a registered domain                         *)
(***************************************************************************)

\* A site/create request of goroutine p has been answered.
CreateAnswered(p) == cpc[p] = "idle" /\ cop[p].kind = "create" /\ cop[p].status # 0

\* The errors of a site/create that come from the disk, nginx or certbot.
CreateEnvErrors ==
    {SaveErr("create_err"), SaveErr("encode_err"), "nginx_setup_failed",
     "cert_generation_failed"}

\* C28: a site/create that finds its domain registered is answered 409 and
\* changes neither the registry nor the site's available/ and enabled/
\* config; no later step of a site/create changes the config of a site
\* that is registered by then; and of two site/create requests for one
\* domain, none failing on the disk, nginx or certbot, the one that is not
\* answered 201 is answered 409.
C28_DuplicateCreateIs409 ==
    /\ [][\A p \in Procs :
            (cpc[p] = "sc_lookup" /\ cpc'[p] # "sc_lookup" /\ cop[p].domain \in cfgSite)
               => /\ cop'[p].status = 409
                  /\ UNCHANGED <<cfgSite, diskSite, jailIP, sslSite, available, enabled>>]_vars
    /\ [][\A p \in Procs :
            (cpc[p] \in {"sc_httponly", "sc_cert"} /\ cpc'[p] # cpc[p]
                /\ cop[p].domain \in cfgSite)
               => UNCHANGED <<available, enabled>>]_vars
    /\ [](\A p, q \in Procs :
            (/\ p # q /\ nReq = 2
             /\ CreateAnswered(p) /\ CreateAnswered(q)
             /\ cop[p].domain = cop[q].domain
             /\ cop[p].status = 201
             /\ cop[q].error \notin CreateEnvErrors)
            => cop[q].status = 409)

(***************************************************************************)
(* Properties of the commit check                                          *)
(***************************************************************************)

HexChars == {"0", "1", "2", "3", "4", "5", "6", "7", "8", "9", "a", "b", "c", "d", "e", "f"}

\* C29: the deploy handlers go on with a commit id exactly when it is the
\* literal `latest` or has 7 to 40 characters, each of 0-9 or a-f; every
\* other id is answered 400, and the check writes nothing to disk.
C29_CommitIdAccepted ==
    /\ [](res # <<>> =>
            LET c == arg.commit
                wellFormed == \/ c = <<"l", "a", "t", "e", "s", "t">>
                              \/ /\ Len(c) \in 7 .. 40
                                 /\ {c[i] : i \in 1 .. Len(c)} \subseteq HexChars
            IN IF wellFormed THEN res[1].status = 0 ELSE res[1].status = 400)
    /\ [][res' # res => UNCHANGED <<fs, P, Pnew, Pold, available, enabled>>]_vars

C29_Witness ==
    /\ res # <<>> /\ res[1].status = 400
    /\ Len(arg.commit) = 41
    /\ \A i \in 1 .. 41 : arg.commit[i] \in HexChars

(***************************************************************************)
(* Properties of the derived names                                         *)
(***************************************************************************)

\* C30: for every site name the container name has `-` wherever the name
\* has `.` and the name's character elsewhere, the service name has `_`
\* wherever the name has `.` or `-` and the name's character elsewhere, and
\* the jail adapter and the service adapter compute the same container name.
C30_DerivedNames ==
    res # <<>> =>
        /\ Len(res[1].jailPot) = Len(arg) /\ Len(res[1].service) = Len(arg)
        /\ \A i \in 1 .. Len(arg) :
              /\ res[1].jailPot[i] = (IF arg[i] = "." THEN "-" ELSE arg[i])
              /\ res[1].service[i] = (IF arg[i] \in {".", "-"} THEN "_" ELSE arg[i])
        /\ res[1].servicePot = res[1].jailPot

C30_Witness ==
    /\ res # <<>> /\ Len(arg) = 4
    /\ arg[1] = "a" /\ arg[2] = "-" /\ arg[3] = "1" /\ arg[4] = "."
    /\ res[1].jailPot = <<"a", "-", "1", "-">>
    /\ res[1].service = <<"a", "_", "1", "_">>

(***************************************************************************)
(* Properties of the target detection of updateLatestSymlink               *)
(***************************************************************************)

\* The build directories of the commit that have an index.html.
WithIndex ==
    {j \in 1 .. Len(BuildDirs) :
        NodeAt(fs, FrontendRoot.parts \o <<fop.commit, BuildDirs[j], "index.html">>).t
            # "none"}

MaxUsedOctet == CHOOSE m \in {jailIP[s] : s \in Sites} \cup {0} : \A s \in Sites : jailIP[s] <= m

\* C32: every address handed to a new site has the last octet m + 1, m the
\* largest last octet in use, and that octet is at most 255.
C32_NextAddressInPrefix ==
    [][\A d \in Sites :
          (jailIP'[d] # jailIP[d] /\ jailIP'[d] # 0)
             => (jailIP'[d] = MaxUsedOctet + 1 /\ jailIP'[d] <= 255)]_vars

(***************************************************************************)
(* The serve command under deploy/self                                     *)
(***************************************************************************)

InitSelfOnly == InitUpdater /\ IdleProxy /\ IdleFrontend /\ IdleExtra
SpecSelf == InitSelfOnly /\ [][NextSelf]_vars

\* The goroutines of the Go runtime are scheduled fairly: a sleep that is
\* over, a ready select and a returning Shutdown are eventually run.
SpecSelfLive ==
    /\ SpecSelf
    /\ WF_vars(TriggerShutdown)
    /\ WF_vars(Serve_ShutdownChan)
    /\ WF_vars(\E ok \in BOOLEAN : Serve_Shutdown(ok))
    /\ WF_vars(DeploySelf_UpdateStep)
    /\ WF_vars(DeploySelf_Answer)

\* Serve has stopped the server and returned; "shutdown_err" is the return
\* with the error of app.Shutdown, a failure of the environment.
ServeReturned == srv.servePc \in {"returned", "shutdown_err"}

\* C33: deploy/self closes the shutdown channel only after a successful
\* update whose 200 answer has been produced, an answer of 400 or 500 starts
\* no shutdown goroutine, no goroutine panics, and once a shutdown goroutine
\* is started Serve eventually stops the server and returns.
C33_ShutdownAfterSuccessOnly ==
    /\ [][/\ srv'.timers > srv.timers => (srv'.selfRet = 200 /\ uret = "ok")
          /\ srv'.shutdownChan # srv.shutdownChan => (updated /\ srv.timers > 0)
          /\ srv'.servePc # "panic"]_vars
    /\ (srv.timers > 0) ~> ServeReturned

(***************************************************************************)
(* Properties of the link in sites-enabled                                 *)
(***************************************************************************)

\* The running call has had a validator run that read the new content and
\* accepted it: `nginx -t` reads what sites-enabled includes, so the run of
\* DeploySiteConfigRaw covers the file it has just written only when the
\* site was linked already; DeployHTTPOnlyConfig has not validated at all
\* when it makes the link.
ValidatedNewContent ==
    /\ nop.kind = "deploy_site"
    /\ npc \in {"ds_unlink", "ds_symlink"}
    /\ nop.enabled0 /\ ~nop.rejected

\* C34: in deploy_site and deploy_http_only every step that creates or
\* replaces a link in sites-enabled comes after a successful validator run
\* that covered the new content of the site's config.
C34_ValidatedBeforeLink ==
    [][\A s \in Sites : (enabled'[s] /\ ~enabled[s]) => ValidatedNewContent]_vars

(***************************************************************************)
(* Properties of override.conf after site/destroy                          *)
(***************************************************************************)

\* site/destroy has answered 200 and its RemoveSiteConfig returned no error.
Destroyed ==
    /\ spc = "idle" /\ sop.kind = "destroy" /\ sret.status = 200
    /\ nret.kind = "remove_site" /\ nret.err = "nil"

\* C35: after site/destroy has returned, override.conf on disk was generated
\* from a set of sites without the destroyed domain: it holds no map or geo
\* entry for it.
C35_OverrideWithoutDestroyed ==
    Destroyed => sop.domain \notin overrideConf

(***************************************************************************)
(* Properties of a failed Update                                           *)
(***************************************************************************)

\* Update has returned "atomic replace" after the final rename and the restore
\* both failed: the old binary is still at P.old and nothing is at P.
RestoreFailed ==
    /\ uret = "atomic replace"
    /\ LastCall.pre.exists /\ ~P.exists /\ Pold = LastCall.pre

\* Update has returned an error on one of the other paths: write error,
\* failed validation, failed backup rename, failed final rename with a
\* successful restore.
UpdateFailedRecovered ==
    /\ upc = "idle" /\ Len(uhist) >= 1 /\ LastCall.kind = "update"
    /\ uret \in {"write new binary", "validate binary", "atomic replace"}
    /\ ~RestoreFailed

\* C36: when Update returns an error after a write error, a failed
\* validation, a failed backup rename or a failed final rename with a
\* successful restore, P has its pre-update bytes and P.new does not exist.
C36_FailedUpdateLeavesNoTrace ==
    UpdateFailedRecovered => (P = LastCall.pre /\ ~Pnew.exists)

(***************************************************************************)
(* The log hub with subscribers that are behind                            *)
(***************************************************************************)

\* A subscriber at the start: not connected, or registered with an empty, an
\* almost full or a full channel of records logged earlier (written 0).
SubscriberShapes == {"none", "empty", "almost", "full"}
Backlog(shape) ==
    CASE shape = "almost" -> [i \in 1 .. SendCap - 1 |-> 0]
      [] shape = "full" -> [i \in 1 .. SendCap |-> 0]
      [] OTHER -> <<>>

InitHubLateOnly ==
    /\ \E shape \in [LClients -> SubscriberShapes] :
          /\ hclients = {c \in LClients : shape[c] # "none"}
          /\ hsend = [c \in LClients |-> Backlog(shape[c])]
          /\ wpc = [c \in LClients |-> IF shape[c] = "none" THEN "none" ELSE "open"]
          /\ pump = [c \in LClients |-> shape[c] # "none"]
    /\ hclosed = [c \in LClients |-> FALSE]
    /\ hqueue = <<>>
    /\ nMsgs = 0 /\ nDrains = 0 /\ lpc = "idle"
    /\ hstopped = FALSE
    /\ InitUpdater /\ IdleProxy /\ IdleFrontend /\ IdleSite /\ IdleConc /\ IdlePid
    /\ IdleLater

\* The records logged while subscribers still come and go.
Handle_Early == nMsgs <= MaxLate /\ Handle

NextHubLate ==
    \/ Handle_Early
    \/ Broadcast
    \/ Run_Broadcast
    \/ \E c \in LClients : WSLogs_Register(c)
    \/ \E c \in LClients, ok \in BOOLEAN : Pump_Receive(c, ok)
    \/ \E c \in LClients : Pump_Exit(c)
    \/ \E c \in LClients : Run_Unregister(c)
    \/ Run_Stop

SpecHubLate == InitHubLateOnly /\ [][NextHubLate]_vars

\* C37: under every interleaving of register, unregister, broadcast and
\* stop, the unregister of a subscriber already evicted as slow included, no
\* subscriber channel is closed twice and the hub sends on no closed channel:
\* Run never panics, and a subscriber with a closed channel is no longer in
\* the set the hub sends to and closes.
C37_ClosedOnceNeverSentTo ==
    /\ srv.servePc # "panic"
    /\ \A c \in hclients : ~hclosed[c]

\* Subscriber 1 was evicted with a full channel by the broadcast of a record
\* that subscriber 2 received, its handler is about to unregister it, and the
\* hub still runs.
C37_Witness ==
    /\ wpc[1] = "open" /\ hclosed[1] /\ 1 \notin hclients /\ Len(hsend[1]) = SendCap
    /\ ~hstopped /\ srv.servePc # "panic"
    /\ 2 \in hclients /\ hsend[2] # <<>> /\ hsend[2][Len(hsend[2])] = nMsgs
    /\ ENABLED Run_Unregister(1)

(***************************************************************************)
(* Termination of the WSLogs handlers                                      *)
(***************************************************************************)

\* The Go scheduler is fair to the hub's loop and to the writePumps: a
\* handler that waits on h.unregister while Run is in its select is received
\* from, a queued record is processed, a pump on a closed channel returns.
SpecHubLateLive ==
    /\ SpecHubLate
    /\ \A c \in LClients : WF_vars(Run_Unregister(c))
    /\ \A c \in LClients : WF_vars(Pump_Exit(c))
    /\ WF_vars(Run_Broadcast)
    /\ WF_vars(Broadcast)

\* C38: a WSLogs handler whose channel has been closed (by an eviction or by
\* the stop of the hub) eventually returns, also when Run has returned
\* already: it does not wait forever on h.unregister.  (Subscriber events
\* are explored while nMsgs <= MaxLate.)
C38_HandlerReturns ==
    \A c \in LClients :
        (wpc[c] = "open" /\ hclosed[c] /\ nMsgs <= MaxLate)
            ~> (wpc[c] = "done" \/ nMsgs > MaxLate)

(***************************************************************************)
(* Two accepted domains and their derived names                            *)
(***************************************************************************)

InitPairOnly ==
    /\ arg \in PairInputs /\ res = <<>>
    /\ InitUpdater /\ InitFrontend /\ IdleSite /\ IdleConc /\ IdlePid /\ IdleHub /\ IdleMonitor /\ IdleServe
    /\ cfgSite = Sites
    /\ available = [s \in Sites |-> NoConf]
    /\ enabled = [s \in Sites |-> FALSE]
    /\ overrideConf = {}
    /\ npc = "idle"
    /\ nop = NIdleOp
    /\ nret = NNoRet
SpecPairs == InitPairOnly /\ [][DerivePairNames]_vars

\* C39: two distinct domains that site/create accepts get distinct
\* container names and distinct service names.
C39_DistinctNames ==
    (res # <<>> /\ res[1].accepted)
        => /\ res[1].pots[1] # res[1].pots[2]
           /\ res[1].services[1] # res[1].services[2]

(***************************************************************************)
(* The registry file at the next start                                     *)
(***************************************************************************)

SpecRestart == InitSiteOnly /\ [][NextRestart]_vars

\* C40: after any sequence of site/create and site/destroy whose last save
\* wrote the file, the destroy of the last remaining site included, the next
\* start loads the file without an error and with the sites of the registry.
C40_SavedFileLoads ==
    (res # <<>> /\ diskSite = DiskOf(cfgSite))
        => res[1] = [err |-> "nil", sites |-> cfgSite]

====
